---- MODULE Spec2Model ----
(***************************************************************************)
(* A model of the connection and query-execution core of mcp-sql:          *)
(*   - DatabaseConnectionManager  (src/src/database/connection/connection.ts) *)
(*   - QueryService, SchemaService (src/unnamed/part_003)                   *)
(*   - PerformanceAlert            (src/unnamed/part_011)                   *)
(*   - PerformanceDomainService    (src/src/domain/performance/services)    *)
(*   - PerformanceMonitor          (src/unnamed/part_005)                   *)
(*   - StartPerformanceMonitoringUseCase (src/src/application/use-cases)    *)
(* Every async method is cut at its await points: one action per           *)
(* synchronous stretch of code.  Each component has its own specification  *)
(* (SpecConn, SpecQuery, SpecAlert, SpecCache, SpecMon); the variables of   *)
(* the other components stay at their initial values.                      *)
(***************************************************************************)
EXTENDS Integers, Sequences, FiniteSets, TLC

VARIABLES
  \* DatabaseConnectionManager
  connections,        \* Map<string, adapter>: sequence of [id, adapter] in insertion order
  currentConnection,  \* string | null
  adapterConnected,   \* adapter object -> BaseDatabaseAdapter.connected
  connCalls,          \* the async calls suspended at an await
  nextCall,           \* number of calls made so far (the next call's number)
  nextAdapter,        \* number of adapter objects constructed so far
  connDone,           \* the call that completed last: [call, kind, id, status, error, wasCurrent]
  \* QueryService
  queryHistory,       \* QueryService.queryHistory: sequence of [query, success, error]
  qOp,                \* the QueryService method in progress: "idle", "query", "batch", "txn"
  qQueries,           \* its argument: the list of statements
  qPhase,             \* where executeInTransaction stands: "begin", "stmts", "commit", "rollback"
  qInflight,          \* the statement awaited at connection.executeQuery, or NoQuery
  qResults,           \* the local `results` array
  qCaught,            \* the error held by executeInTransaction's catch block
  qAttempts,          \* statements handed to this.executeQuery since the method was called
  qSentTo,            \* for each attempt, the adapter getCurrentConnection() gave it
  qOutcomes,          \* what the adapter call did for each attempt: "ok", "fail", "throw"
  qReturn,            \* what the method handed to its caller: [op, status, error, results]
  \* PerformanceAlert, InMemoryPerformanceAlertRepository, PerformanceDomainService
  alertStore,         \* alert id -> the PerformanceAlert object: [status, createdAt, acknowledgedAt, resolvedAt]
  alertNow,           \* the clock read by `new Date()`
  alertCalls,         \* acknowledgeAlert / resolveAlert calls suspended at an await
  alertCallCount,     \* number of acknowledgeAlert / resolveAlert calls made so far
  alertDone,          \* the call that completed last: [kind, id, status, error]
  alertEscalation,    \* what findEscalationCandidates returned last
  alertsHistory,      \* InMemoryPerformanceAlertRepository.alertsHistory (alert ids)
  alertSeq,           \* number of alerts constructed so far
  \* PerformanceDomainService.evaluateAndCreateAlerts
  evalMetric,         \* the metric being evaluated
  evalPc,             \* 0: no call runs; 2..4: suspended at the await of save(), the
                      \* evaluation to go on with (4: none is left)
  evalAlerts,         \* the local list `alerts`, returned at the end
  evalCount,          \* number of evaluateAndCreateAlerts calls made so far
  \* SchemaService
  schemaCache,        \* SchemaService.schemaCache: cache key -> [data, timestamp]
  cacheNow,           \* the clock read by Date.now()
  backendVersion,     \* the state of the database schema the adapter reads
  cacheCalls,         \* lookups suspended at the await of the adapter call
  cacheCallCount,     \* number of lookups made so far
  adapterFetches,     \* number of schema calls made to the adapter so far
  cacheLast,          \* what the last lookup step did: [req, outcome, data, age]
  \* getSchemaStatistics of SchemaService and of SchemaRepositoryImpl
  statsPath,          \* which of the two is running: "service", "repository", "none"
  statsPc,            \* the await the running call is suspended at, "idle" if none
  statsData,          \* what the running call has read so far
  statsStart,         \* clock and adapter-call count when the running call began
  statsCount,         \* number of getSchemaStatistics calls made so far
  statsPrev,          \* the outcome of the call before the last one
  statsLast,          \* the outcome of the last call
  \* PerformanceMonitor and StartPerformanceMonitoringUseCase
  liveTimers,         \* the interval timers that are set and not cleared
  nextTimer,          \* the handle the next setInterval returns
  monCallCount,       \* number of start and stop calls made so far
  monCalled,          \* the method called last
  tickCount,          \* number of times the monitoring interval has elapsed
  pmIsMonitoring,     \* PerformanceMonitor.isMonitoring
  pmInterval,         \* PerformanceMonitor.monitoringInterval
  pmInflight,         \* collectAndCheckMetrics calls awaiting the collector
  pmMetrics,          \* PerformanceMonitor.metrics
  pmMaxMetricsHistory, \* PerformanceMonitor.config.maxMetricsHistory
  pmCollected,        \* every metric given to addMetric so far, in that order
  pmAlerts,           \* PerformanceMonitor.alerts
  pmDone,             \* the PerformanceMonitor call made last: [op, status]
  ucIsMonitoring,     \* StartPerformanceMonitoringUseCase.isMonitoring
  ucInterval,         \* StartPerformanceMonitoringUseCase.monitoringInterval
  ucPending,          \* execute() calls awaiting the first metric collection
  ucInflight,         \* timer callbacks awaiting collectAndStoreMetrics
  ucStored,           \* number of metrics collected for the use case
  mrMetrics,          \* InMemoryPerformanceMetricRepository.metrics: the ids it maps
  mrHistory,          \* InMemoryPerformanceMetricRepository.metricsHistory
  mrSaved,            \* the metrics save() was called with, in call order
  mrNow,              \* the clock `new Date()` reads for a metric's timestamp
  ucOverlapped,       \* an execute() was called while another was awaiting
  ucDone,             \* the use case call that returned last: [op, success, error]
  \* MSSQLAdapter, MySQLAdapter, PostgreSQLAdapter: one adapter object
  adType,             \* getType(): "mssql", "mysql" or "postgresql"
  adPool,             \* this.pool / this.connection: NoPool or the driver object held
  adConnected,        \* BaseDatabaseAdapter.connected
  adOpen,             \* the driver objects that are open on the driver's side
  adNextPool,         \* number of driver objects constructed so far
  adCalls,            \* adapter calls suspended at an await
  adCallCount,        \* number of adapter calls made so far
  adDone,             \* the call that completed last: [call, op, status, result, contacted, ...]
  adOverlapped,       \* a disconnect() completed while a connect() was awaiting
  \* the clear-caches handlers
  clearDone,          \* the clear-caches handler that returned last: [handler, status]
  \* Adapter.getSchema, one call at a time (its table list is a local of the call)
  gsType,             \* the adapter type of the running call, NoType when idle
  gsPc,               \* "idle", "getTables" or "getTableInfo": the await it is at
  gsDetailed,         \* the includeDetailedInfo argument of the running call
  gsTables,           \* the local `tables` of the running call
  gsIndex,            \* the loop variable i (1-based)
  gsListed,           \* the names getTables listed for the running call
  gsFailed,           \* the positions whose getTableInfo failed in the running call
  gsAttempted,        \* the positions getTableInfo was called for in the running call
  gsCount,            \* number of getSchema calls made
  gsReturn,           \* what the last completed getSchema call gave
  \* the describe_table handlers, one call at a time
  dbTables,           \* the names of the tables the database holds
  repoSchemaCache,    \* SchemaRepositoryImpl.schemaCache: database name -> table names
  dtHandler,          \* the handler of the running call, "none" when idle
  dtPc,               \* "idle", "schema", "info" or "service": the await it is at
  dtTable,            \* the table_name argument of the running call
  dtMissing,          \* the database held no such table at any step of the running call
  dtCount,            \* number of describe_table calls made
  dtDone,             \* what the last completed describe_table call gave
  \* EventBus (one event type)
  ebHandlers,         \* this.handlers.get(eventType), <<>> when the map has no such key
  ebPublishing,       \* publish is inside its for...of loop
  ebIndex,            \* the index the array iterator of the loop reads next
  ebAtStart,          \* the handlers subscribed when the running publish started
  ebInvoked,          \* the handlers the running or last publish has called, in order
  ebErrors,           \* console.error calls of the running or last publish
  ebPublishCount,     \* number of publish calls made
  \* QueryExecutorImpl.executeInTransaction
  exPc,               \* the await it is at: "idle", "begin", "statement", "rollbackTry",
                      \* "commit" or "rollbackCatch"
  exSql,              \* the sql argument of the running call
  exSent,             \* statements handed to connection.executeQuery by the call
  exOutcomes,         \* what the adapter did for each of them: "ok", "fail", "throw"
  exCaught,           \* the error held by the catch block
  exReturn,           \* what the call handed to its caller: [status, error]
  exCount             \* number of executeInTransaction calls made

connVars == <<connections, currentConnection, adapterConnected, connCalls,
              nextCall, nextAdapter, connDone>>

queryVars == <<queryHistory, qOp, qQueries, qPhase, qInflight, qResults, qCaught,
               qAttempts, qSentTo, qOutcomes, qReturn>>

alertVars == <<alertStore, alertNow, alertCalls, alertCallCount, alertDone,
               alertEscalation, alertsHistory, alertSeq>>
evalVars == <<evalMetric, evalPc, evalAlerts, evalCount>>

cacheVars == <<schemaCache, cacheNow, backendVersion, cacheCalls, cacheCallCount,
               adapterFetches, cacheLast>>

timerVars == <<liveTimers, nextTimer, monCallCount, monCalled, tickCount>>
pmVars == <<pmIsMonitoring, pmInterval, pmInflight, pmMetrics, pmMaxMetricsHistory,
            pmCollected, pmAlerts, pmDone>>
ucVars == <<ucIsMonitoring, ucInterval, ucPending, ucInflight, ucStored, ucOverlapped,
            ucDone>>
mrVars == <<mrMetrics, mrHistory, mrSaved, mrNow>>
monVars == <<timerVars, pmVars, ucVars, mrVars>>

statsVars == <<statsPath, statsPc, statsData, statsStart, statsCount, statsPrev, statsLast>>

clearVars == <<clearDone>>

describeVars == <<dbTables, repoSchemaCache, dtHandler, dtPc, dtTable, dtMissing,
                  dtCount, dtDone>>

getSchemaVars == <<gsType, gsPc, gsDetailed, gsTables, gsIndex, gsListed, gsFailed,
                   gsAttempted, gsCount, gsReturn>>

adapterVars == <<adType, adPool, adConnected, adOpen, adNextPool, adCalls, adCallCount,
                 adDone, adOverlapped>>

eventVars == <<ebHandlers, ebPublishing, ebIndex, ebAtStart, ebInvoked, ebErrors,
               ebPublishCount>>

executorVars == <<exPc, exSql, exSent, exOutcomes, exCaught, exReturn, exCount>>

vars == <<connVars, queryVars, alertVars, evalVars, cacheVars, statsVars, monVars,
          clearVars, adapterVars, getSchemaVars, describeVars, eventVars, executorVars>>

nonConnVars == <<queryVars, alertVars, evalVars, cacheVars, statsVars, monVars,
  clearVars, adapterVars, getSchemaVars, describeVars, eventVars, executorVars>>
nonQueryVars == <<connVars, alertVars, evalVars, cacheVars, statsVars, monVars,
  clearVars, adapterVars, getSchemaVars, describeVars, eventVars, executorVars>>
nonAlertVars == <<connVars, queryVars, evalVars, cacheVars, statsVars, monVars,
  clearVars, adapterVars, getSchemaVars, describeVars, eventVars, executorVars>>
nonEvalVars == <<connVars, queryVars, cacheVars, statsVars, monVars,
  clearVars, adapterVars, getSchemaVars, describeVars, eventVars, executorVars>>
nonCacheVars == <<connVars, queryVars, alertVars, evalVars, statsVars, monVars,
  clearVars, adapterVars, getSchemaVars, describeVars, eventVars, executorVars>>
nonStatsVars == <<connVars, queryVars, alertVars, evalVars, monVars,
  clearVars, adapterVars, getSchemaVars, describeVars, eventVars, executorVars>>
nonMonVars == <<connVars, queryVars, alertVars, evalVars, cacheVars, statsVars,
  clearVars, adapterVars, getSchemaVars, describeVars, eventVars, executorVars>>
nonAdapterVars == <<connVars, queryVars, alertVars, evalVars, cacheVars, statsVars,
  monVars, clearVars, getSchemaVars, describeVars, eventVars, executorVars>>

nonGetSchemaVars == <<connVars, queryVars, alertVars, evalVars, cacheVars, statsVars,
  monVars, clearVars, adapterVars, describeVars, eventVars, executorVars>>

nonDescribeVars == <<connVars, queryVars, alertVars, evalVars, statsVars, monVars,
  clearVars, adapterVars, getSchemaVars, eventVars, executorVars>>

nonEventVars == <<connVars, queryVars, alertVars, evalVars, cacheVars, statsVars,
  monVars, clearVars, adapterVars, getSchemaVars, describeVars, executorVars>>

nonExecutorVars == <<connVars, queryVars, alertVars, evalVars, cacheVars, statsVars,
  monVars, clearVars, adapterVars, getSchemaVars, describeVars, eventVars>>

----------------------------------------------------------------------------
(* Bounds of the model *)

MaxConnCalls == 4      \* calls made on the connection manager in one behaviour
MaxStmts == 3          \* longest statement list given to executeBatch / executeInTransaction
MaxHistory == 6        \* history entries recorded in one behaviour before clearHistory
MaxTxnStmts == 1       \* statements of a transaction run while connections change
MaxTxnConnCalls == 3   \* manager calls made while transactions or schema lookups run
MaxHandlers == 3       \* distinct handler functions given to the event bus
MaxPublishes == 2      \* publish calls made in one behaviour
MaxExecutorCalls == 2  \* QueryExecutorImpl.executeInTransaction calls in one behaviour
MaxAlerts == 1         \* alerts created in one behaviour
MaxAlertCalls == 3     \* acknowledgeAlert / resolveAlert calls made in one behaviour
MaxAlertTime == 1      \* the clock of the alert model runs from 0 to this
MaxEvals == 1          \* evaluateAndCreateAlerts calls made in one behaviour
MaxCacheCalls == 2     \* schema lookups made in one behaviour
MaxCacheTime == 3      \* the clock of the cache model runs from 0 to this
MaxSchemaVersion == 1  \* times the database schema changes in one behaviour
MaxAdapterCalls == 4   \* calls made on the adapter in one behaviour
MaxClearCalls == 2     \* clear-caches calls handled in one behaviour
MaxStatsCalls == 2     \* getSchemaStatistics calls made in one behaviour
MaxMonCalls == 4       \* start and stop calls made in one behaviour
MaxTimers == 2         \* interval timers created in one behaviour
MaxMetricTime == 1     \* the latest timestamp a stored metric carries
MaxTicks == 2          \* times the monitoring interval elapses in one behaviour
MaxUcPending == 2      \* execute() calls awaiting at the same time

----------------------------------------------------------------------------
(* DatabaseConnectionManager *)

ConnectionIds == {"a", "b"}
SupportedTypes == {"mssql", "mysql", "postgresql"}
DbTypes == SupportedTypes \cup {"oracle"}
NoConnection == "null"
NoAdapter == 0
Adapters == 1..(MaxConnCalls + 1)

RECURSIVE SeqToSet(_)
SeqToSet(s) == IF s = <<>> THEN {} ELSE {Head(s)} \cup SeqToSet(Tail(s))

RECURSIVE FilterOut(_, _)
\* Map.delete(key): the entries without the key, order kept
FilterOut(s, id) ==
  IF s = <<>> THEN <<>>
  ELSE IF Head(s).id = id THEN FilterOut(Tail(s), id)
       ELSE <<Head(s)>> \o FilterOut(Tail(s), id)

\* Array.from(this.connections.keys())
Keys(conns) == [i \in 1..Len(conns) |-> conns[i].id]
KeySet(conns) == {conns[i].id : i \in 1..Len(conns)}
Has(conns, id) == id \in KeySet(conns)
\* this.connections.get(id)
Get(conns, id) ==
  IF Has(conns, id)
  THEN (CHOOSE e \in SeqToSet(conns) : e.id = id).adapter
  ELSE NoAdapter

\* this.connections.set(id, adapter): an existing key keeps its place
MapSet(conns, id, adapter) ==
  IF Has(conns, id)
  THEN [i \in 1..Len(conns) |->
          IF conns[i].id = id THEN [id |-> id, adapter |-> adapter] ELSE conns[i]]
  ELSE Append(conns, [id |-> id, adapter |-> adapter])

\* this.connections.delete(id)
MapDelete(conns, id) == FilterOut(conns, id)

\* A removeConnection that forgets to move the current identifier
AfterRemove_KeepsCurrent(cur, id, remaining) == cur

\* A removeConnection that clears the current identifier instead of reassigning it
AfterRemove_AlwaysClears(cur, id, remaining) ==
  IF cur = id THEN NoConnection ELSE cur

\* removeConnection, lines 274-278: the current identifier after the delete
AfterRemove(cur, id, remaining) ==
  IF cur = id
  THEN (IF Len(remaining) > 0 THEN remaining[1].id ELSE NoConnection)
  ELSE cur

ConnInit ==
  /\ connections = <<>>
  /\ currentConnection = NoConnection
  /\ adapterConnected = [a \in Adapters |-> FALSE]
  /\ connCalls = {}
  /\ nextCall = 0
  /\ nextAdapter = 0
  /\ connDone = [call |-> 0, kind |-> "none", id |-> NoConnection, status |-> "none",
                  error |-> "", wasCurrent |-> FALSE]

\* The outcome a call hands to its caller: status "ok", "true" or "false" for a
\* return, "error" for a raised error; wasCurrent: id was current just before
Completed(c, status, error) ==
  connDone' = [call |-> c.call, kind |-> c.kind, id |-> c.id, status |-> status,
               error |-> error, wasCurrent |-> (currentConnection = c.id)]

CompletedSync(kind, id, status, error) ==
  connDone' = [call |-> nextCall + 1, kind |-> kind, id |-> id, status |-> status,
               error |-> error, wasCurrent |-> (currentConnection = id)]

\* createConnection up to `await adapter.connect()`, lines 157-181
CreateConnectionCall(id, dbType) ==
  /\ nextCall < MaxConnCalls
  /\ nextCall' = nextCall + 1
  /\ IF dbType \in SupportedTypes
     THEN /\ nextAdapter' = nextAdapter + 1
          /\ connCalls' = connCalls \cup
               {[call |-> nextCall + 1, kind |-> "create", id |-> id,
                 adapter |-> nextAdapter + 1, parent |-> 0, pc |-> "connect"]}
          /\ UNCHANGED connDone
     ELSE /\ CompletedSync("create", id, "error", "Unsupported database type")
          /\ UNCHANGED <<nextAdapter, connCalls>>
  /\ UNCHANGED <<connections, currentConnection, adapterConnected>>
  /\ UNCHANGED nonConnVars

\* A createConnection that registers the adapter whether or not connect succeeded
CreateConnectionResume_RegistersOnFailure(c, connectOk) ==
  /\ c \in connCalls /\ c.kind = "create"
  /\ connCalls' = connCalls \ {c}
  /\ adapterConnected' = [adapterConnected EXCEPT ![c.adapter] = connectOk]
  /\ connections' = MapSet(connections, c.id, c.adapter)
  /\ currentConnection' =
       IF currentConnection = NoConnection THEN c.id ELSE currentConnection
  /\ Completed(c, IF connectOk THEN "ok" ELSE "error",
               IF connectOk THEN "" ELSE "connection failed")
  /\ UNCHANGED <<nextCall, nextAdapter>>
  /\ UNCHANGED nonConnVars

\* A createConnection that makes every new connection the current one
CreateConnectionResume_AlwaysCurrent(c, connectOk) ==
  /\ c \in connCalls /\ c.kind = "create"
  /\ connCalls' = connCalls \ {c}
  /\ adapterConnected' = [adapterConnected EXCEPT ![c.adapter] = connectOk]
  /\ IF connectOk
     THEN /\ connections' = MapSet(connections, c.id, c.adapter)
          /\ currentConnection' = c.id
          /\ Completed(c, "ok", "")
     ELSE /\ UNCHANGED <<connections, currentConnection>>
          /\ Completed(c, "error", "connection failed")
  /\ UNCHANGED <<nextCall, nextAdapter>>
  /\ UNCHANGED nonConnVars

\* createConnection after the await, lines 183-204
CreateConnectionResume(c, connectOk) ==
  /\ c \in connCalls /\ c.kind = "create"
  /\ connCalls' = connCalls \ {c}
  /\ adapterConnected' = [adapterConnected EXCEPT ![c.adapter] = connectOk]
  /\ IF connectOk
     THEN /\ connections' = MapSet(connections, c.id, c.adapter)
          /\ currentConnection' =
               IF currentConnection = NoConnection THEN c.id ELSE currentConnection
          /\ Completed(c, "ok", "")
     ELSE /\ UNCHANGED <<connections, currentConnection>>
          /\ Completed(c, "error", "connection failed")
  /\ UNCHANGED <<nextCall, nextAdapter>>
  /\ UNCHANGED nonConnVars

\* A switchConnection that does not look the identifier up in the registry
SwitchConnection_NoCheck(id) ==
  /\ nextCall < MaxConnCalls
  /\ nextCall' = nextCall + 1
  /\ currentConnection' = id
  /\ CompletedSync("switch", id, "ok", "")
  /\ UNCHANGED <<connections, adapterConnected, connCalls, nextAdapter>>
  /\ UNCHANGED nonConnVars

\* switchConnection, lines 246-258
SwitchConnection(id) ==
  /\ nextCall < MaxConnCalls
  /\ nextCall' = nextCall + 1
  /\ IF Has(connections, id)
     THEN /\ currentConnection' = id
          /\ CompletedSync("switch", id, "ok", "")
     ELSE /\ UNCHANGED currentConnection
          /\ CompletedSync("switch", id, "error", "Connection not found")
  /\ UNCHANGED <<connections, adapterConnected, connCalls, nextAdapter>>
  /\ UNCHANGED nonConnVars

\* removeConnection up to `await connection.disconnect()`, lines 263-270
RemoveConnectionCall(id) ==
  /\ nextCall < MaxConnCalls
  /\ nextCall' = nextCall + 1
  /\ IF Has(connections, id)
     THEN /\ connCalls' = connCalls \cup
               {[call |-> nextCall + 1, kind |-> "remove", id |-> id,
                 adapter |-> Get(connections, id), parent |-> 0, pc |-> "disconnect"]}
          /\ UNCHANGED connDone
     ELSE /\ CompletedSync("remove", id, "error", "Connection not found")
          /\ UNCHANGED connCalls
  /\ UNCHANGED <<connections, currentConnection, adapterConnected, nextAdapter>>
  /\ UNCHANGED nonConnVars

\* removeConnection after the await, lines 271-287 (also as a child of disconnectAll)
RemoveConnectionResume(c, disconnectOk) ==
  /\ c \in connCalls /\ c.kind = "remove"
  /\ connCalls' = connCalls \ {c}
  /\ IF disconnectOk
     THEN /\ adapterConnected' = [adapterConnected EXCEPT ![c.adapter] = FALSE]
          /\ connections' = MapDelete(connections, c.id)
          /\ currentConnection' =
               AfterRemove(currentConnection, c.id, MapDelete(connections, c.id))
          /\ Completed(c, "ok", "")
     ELSE /\ UNCHANGED <<adapterConnected, connections, currentConnection>>
          /\ Completed(c, "error", "disconnection failed")
  /\ UNCHANGED <<nextCall, nextAdapter>>
  /\ UNCHANGED nonConnVars

\* disconnectAll up to `await Promise.allSettled(...)`, lines 293-305: every
\* removeConnection runs to its own await
DisconnectAllCall ==
  /\ nextCall < MaxConnCalls
  /\ nextCall' = nextCall + 1
  /\ connCalls' = connCalls
       \cup {[call |-> nextCall + 1, kind |-> "disconnectAll", id |-> NoConnection,
              adapter |-> NoAdapter, parent |-> 0, pc |-> "allSettled"]}
       \cup {[call |-> (nextCall + 1) * 10 + i, kind |-> "remove",
              id |-> connections[i].id, adapter |-> connections[i].adapter,
              parent |-> nextCall + 1, pc |-> "disconnect"] : i \in 1..Len(connections)}
  /\ UNCHANGED <<connections, currentConnection, adapterConnected, nextAdapter, connDone>>
  /\ UNCHANGED nonConnVars

\* A disconnectAll that leaves the current identifier as the removals left it
DisconnectAllResume_KeepsCurrent(c) ==
  /\ c \in connCalls /\ c.kind = "disconnectAll"
  /\ \A k \in connCalls : k.parent # c.call
  /\ connCalls' = connCalls \ {c}
  /\ Completed(c, "ok", "")
  /\ UNCHANGED <<connections, currentConnection, adapterConnected, nextCall, nextAdapter>>
  /\ UNCHANGED nonConnVars

\* disconnectAll after allSettled, lines 306-307
DisconnectAllResume(c) ==
  /\ c \in connCalls /\ c.kind = "disconnectAll"
  /\ \A k \in connCalls : k.parent # c.call
  /\ connCalls' = connCalls \ {c}
  /\ currentConnection' = NoConnection
  /\ Completed(c, "ok", "")
  /\ UNCHANGED <<connections, adapterConnected, nextCall, nextAdapter>>
  /\ UNCHANGED nonConnVars

\* autoReconnect up to `await connection.disconnect()`, lines 360-373;
\* id = NoConnection stands for the omitted argument
AutoReconnectCall(id) ==
  /\ nextCall < MaxConnCalls
  /\ nextCall' = nextCall + 1
  /\ LET target == IF id = NoConnection THEN currentConnection ELSE id
     IN IF target # NoConnection /\ Has(connections, target)
        THEN /\ connCalls' = connCalls \cup
                  {[call |-> nextCall + 1, kind |-> "reconnect", id |-> target,
                    adapter |-> Get(connections, target), parent |-> 0,
                    pc |-> "disconnect"]}
             /\ UNCHANGED connDone
        ELSE /\ CompletedSync("reconnect", target, "false", "")
             /\ UNCHANGED connCalls
  /\ UNCHANGED <<connections, currentConnection, adapterConnected, nextAdapter>>
  /\ UNCHANGED nonConnVars

\* autoReconnect after the disconnect, lines 373-376 and 383-388
AutoReconnectDisconnected(c, disconnectOk) ==
  /\ c \in connCalls /\ c.kind = "reconnect" /\ c.pc = "disconnect"
  /\ IF disconnectOk
     THEN /\ adapterConnected' = [adapterConnected EXCEPT ![c.adapter] = FALSE]
          /\ connCalls' = (connCalls \ {c}) \cup {[c EXCEPT !.pc = "connect"]}
          /\ UNCHANGED connDone
     ELSE /\ connCalls' = connCalls \ {c}
          /\ Completed(c, "false", "")
          /\ UNCHANGED adapterConnected
  /\ UNCHANGED <<connections, currentConnection, nextCall, nextAdapter>>
  /\ UNCHANGED nonConnVars

\* An autoReconnect that lets the failure of connect() escape to the caller
AutoReconnectConnected_Raises(c, connectOk) ==
  /\ c \in connCalls /\ c.kind = "reconnect" /\ c.pc = "connect"
  /\ connCalls' = connCalls \ {c}
  /\ adapterConnected' = [adapterConnected EXCEPT ![c.adapter] = connectOk]
  /\ Completed(c, IF connectOk THEN "true" ELSE "error", "")
  /\ UNCHANGED <<connections, currentConnection, nextCall, nextAdapter>>
  /\ UNCHANGED nonConnVars

\* autoReconnect after the connect, lines 376-388
AutoReconnectConnected(c, connectOk) ==
  /\ c \in connCalls /\ c.kind = "reconnect" /\ c.pc = "connect"
  /\ connCalls' = connCalls \ {c}
  /\ adapterConnected' = [adapterConnected EXCEPT ![c.adapter] = connectOk]
  /\ Completed(c, IF connectOk THEN "true" ELSE "false", "")
  /\ UNCHANGED <<connections, currentConnection, nextCall, nextAdapter>>
  /\ UNCHANGED nonConnVars

NextConn ==
  \/ \E id \in ConnectionIds, t \in DbTypes : CreateConnectionCall(id, t)
  \/ \E c \in connCalls, ok \in BOOLEAN : CreateConnectionResume(c, ok)
  \/ \E id \in ConnectionIds : SwitchConnection(id)
  \/ \E id \in ConnectionIds : RemoveConnectionCall(id)
  \/ \E c \in connCalls, ok \in BOOLEAN : RemoveConnectionResume(c, ok)
  \/ DisconnectAllCall
  \/ \E c \in connCalls : DisconnectAllResume(c)
  \/ \E id \in ConnectionIds \cup {NoConnection} : AutoReconnectCall(id)
  \/ \E c \in connCalls, ok \in BOOLEAN : AutoReconnectDisconnected(c, ok)
  \/ \E c \in connCalls, ok \in BOOLEAN : AutoReconnectConnected(c, ok)

----------------------------------------------------------------------------
(* QueryService *)

NoQuery == "none"
BeginStmt == "BEGIN TRANSACTION"
CommitStmt == "COMMIT TRANSACTION"
RollbackStmt == "ROLLBACK TRANSACTION"
AllStmts == <<"s1", "s2", "s3", "s4">>
\* the statement lists a caller passes
QueryLists == {SubSeq(AllStmts, 1, n) : n \in 0..MaxStmts}
\* the statement lists of the transactions run while connections change
TransactionLists == {SubSeq(AllStmts, 1, n) : n \in 1..MaxTxnStmts}
\* What `await connection.executeQuery(query, options)` can do (line 43-44):
\*   "ok"    it returns a QueryResult with success = true
\*   "fail"  it returns a QueryResult with success = false (driver error)
\*   "throw" getCurrentConnection or the adapter raises (no connection)
AdapterOutcomes == {"ok", "fail", "throw"}
NoError == [msg |-> "", at |-> 0]
NoReturn == [op |-> "none", status |-> "none", error |-> NoError, results |-> <<>>]

\* the error object raised by the n-th attempt
ThrownError(n) == [msg |-> "Not connected to database.", at |-> n]
\* new Error(`Transaction query failed: ${result.error}`), line 212
TransactionQueryFailed(n) == [msg |-> "Transaction query failed: driver error", at |-> n]

\* the QueryResult the adapter returns
QueryResultOf(outcome) ==
  [success |-> (outcome = "ok"), error |-> IF outcome = "ok" THEN "" ELSE "driver error"]

\* the entry executeQuery pushes, lines 48-53 and 67-73
HistoryEntry(query, outcome) ==
  IF outcome = "throw"
  THEN [query |-> query, success |-> FALSE, error |-> "Not connected to database."]
  ELSE [query |-> query, success |-> TRUE, error |-> ""]

RECURSIVE Reverse(_)
Reverse(s) == IF s = <<>> THEN <<>> ELSE Append(Reverse(Tail(s)), Head(s))

\* getQueryHistory(limit), lines 180-183; limit 0 stands for the omitted argument
GetQueryHistory(limit) ==
  LET history == Reverse(queryHistory)
  IN IF limit # 0 THEN SubSeq(history, 1, IF limit < Len(history) THEN limit ELSE Len(history))
     ELSE history

\* getQueryStats, lines 117-120: the three counts
GetQueryStats(history) ==
  LET totalQueries == Len(history)
      successfulQueries == Cardinality({i \in DOMAIN history : history[i].success})
  IN [totalQueries |-> totalQueries, successfulQueries |-> successfulQueries,
      failedQueries |-> totalQueries - successfulQueries]

QueryInit ==
  /\ queryHistory = <<>>
  /\ qOp = "idle"
  /\ qQueries = <<>>
  /\ qPhase = "none"
  /\ qInflight = NoQuery
  /\ qResults = <<>>
  /\ qCaught = NoError
  /\ qAttempts = <<>>
  /\ qSentTo = <<>>
  /\ qOutcomes = <<>>
  /\ qReturn = NoReturn

\* getCurrentConnection, connection.ts lines 218-229: the adapter registered under
\* the current identifier; NoAdapter stands for the two errors it raises
CurrentAdapter ==
  IF currentConnection # NoConnection /\ Has(connections, currentConnection)
  THEN Get(connections, currentConnection)
  ELSE NoAdapter

\* this.executeQuery(query) up to `await connection.executeQuery`, lines 31-44
Attempt(query) ==
  /\ qInflight' = query
  /\ qAttempts' = Append(qAttempts, query)
  /\ qSentTo' = Append(qSentTo, CurrentAdapter)

\* An executeQuery that records nothing when the execution raises
Settle_NoEntryOnThrow(outcome) ==
  /\ qInflight # NoQuery
  /\ queryHistory' = IF outcome = "throw" THEN queryHistory
                     ELSE Append(queryHistory, HistoryEntry(qInflight, outcome))
  /\ qOutcomes' = Append(qOutcomes, outcome)

\* this.executeQuery after the await: the history push, lines 46-53 and 57-73
Settle(outcome) ==
  /\ qInflight # NoQuery
  /\ queryHistory' = Append(queryHistory, HistoryEntry(qInflight, outcome))
  /\ qOutcomes' = Append(qOutcomes, outcome)

Returns(op, results) ==
  /\ qOp' = "idle"
  /\ qInflight' = NoQuery
  /\ qReturn' = [op |-> op, status |-> "returned", error |-> NoError, results |-> results]

Raises(op, error) ==
  /\ qOp' = "idle"
  /\ qInflight' = NoQuery
  /\ qReturn' = [op |-> op, status |-> "raised", error |-> error, results |-> <<>>]

\* a method is entered: the caller's previous call has completed
Enter(op, queries, cost) ==
  /\ qOp = "idle"
  /\ Len(queryHistory) + cost <= MaxHistory
  /\ qOp' = op
  /\ qQueries' = queries
  /\ qResults' = <<>>
  /\ qCaught' = NoError
  /\ qOutcomes' = <<>>
  /\ qReturn' = NoReturn

\* executeQuery called by the client, lines 31-44
ExecuteQueryCall(query) ==
  /\ Enter("query", <<query>>, 1)
  /\ qInflight' = query
  /\ qAttempts' = <<query>>
  /\ qSentTo' = <<CurrentAdapter>>
  /\ qPhase' = "none"
  /\ UNCHANGED queryHistory
  /\ UNCHANGED nonQueryVars

\* executeQuery after the await, lines 44-76
ExecuteQueryResume(outcome) ==
  /\ qOp = "query"
  /\ Settle(outcome)
  /\ IF outcome = "throw"
     THEN Raises("query", ThrownError(Len(qAttempts)))
     ELSE Returns("query", <<QueryResultOf(outcome)>>)
  /\ UNCHANGED <<qQueries, qPhase, qResults, qCaught, qAttempts, qSentTo>>
  /\ UNCHANGED nonQueryVars

\* executeBatch up to its first await, lines 82-92
ExecuteBatchCall(queries) ==
  /\ Enter("batch", queries, Len(queries))
  /\ qPhase' = "none"
  /\ IF Len(queries) = 0
     THEN /\ qOp' = "idle" /\ qInflight' = NoQuery /\ qAttempts' = <<>>
          /\ qSentTo' = <<>>
          /\ qReturn' = [op |-> "batch", status |-> "returned", error |-> NoError,
                         results |-> <<>>]
     ELSE /\ qInflight' = queries[1] /\ qAttempts' = <<queries[1]>>
          /\ qSentTo' = <<CurrentAdapter>>
  /\ UNCHANGED queryHistory
  /\ UNCHANGED nonQueryVars

\* An executeBatch that gives up at the first success=false result
ExecuteBatchResume_StopsOnFailure(outcome) ==
  /\ qOp = "batch"
  /\ Settle(outcome)
  /\ IF outcome # "ok"
     THEN /\ Raises("batch", ThrownError(Len(qAttempts)))
          /\ UNCHANGED <<qResults, qAttempts, qSentTo>>
     ELSE /\ qResults' = Append(qResults, QueryResultOf(outcome))
          /\ IF Len(qResults) + 1 < Len(qQueries)
             THEN /\ Attempt(qQueries[Len(qResults) + 2])
                  /\ UNCHANGED <<qOp, qReturn>>
             ELSE /\ Returns("batch", Append(qResults, QueryResultOf(outcome)))
                  /\ UNCHANGED <<qAttempts, qSentTo>>
  /\ UNCHANGED <<qQueries, qPhase, qCaught>>
  /\ UNCHANGED nonQueryVars

\* executeBatch when a statement's executeQuery has settled, lines 91-111
ExecuteBatchResume(outcome) ==
  /\ qOp = "batch"
  /\ Settle(outcome)
  /\ IF outcome = "throw"
     THEN /\ Raises("batch", ThrownError(Len(qAttempts)))
          /\ UNCHANGED <<qResults, qAttempts, qSentTo>>
     ELSE /\ qResults' = Append(qResults, QueryResultOf(outcome))
          /\ IF Len(qResults) + 1 < Len(qQueries)
             THEN /\ Attempt(qQueries[Len(qResults) + 2])
                  /\ UNCHANGED <<qOp, qReturn>>
             ELSE /\ Returns("batch", Append(qResults, QueryResultOf(outcome)))
                  /\ UNCHANGED <<qAttempts, qSentTo>>
  /\ UNCHANGED <<qQueries, qPhase, qCaught>>
  /\ UNCHANGED nonQueryVars

\* executeInTransaction up to the await of BEGIN, lines 196-205
ExecuteInTransactionCall(queries) ==
  /\ Enter("txn", queries, Len(queries) + 3)
  /\ qPhase' = "begin"
  /\ qInflight' = BeginStmt
  /\ qAttempts' = <<BeginStmt>>
  /\ qSentTo' = <<CurrentAdapter>>
  /\ UNCHANGED queryHistory
  /\ UNCHANGED nonQueryVars

\* A loop that goes on to the next statement after a failed one
CatchAndRollback_Continues(error) ==
  /\ qCaught' = error
  /\ IF Len(qAttempts) - 1 < Len(qQueries) /\ qPhase # "commit"
     THEN /\ qPhase' = "stmts" /\ Attempt(qQueries[Len(qAttempts)])
     ELSE /\ qPhase' = "rollback" /\ Attempt(RollbackStmt)
  /\ UNCHANGED <<qOp, qReturn>>

\* the catch block of executeInTransaction up to the await of ROLLBACK, lines 224-227
CatchAndRollback(error) ==
  /\ qCaught' = error
  /\ qPhase' = "rollback"
  /\ Attempt(RollbackStmt)
  /\ UNCHANGED <<qOp, qReturn>>

\* A loop that commits as soon as one statement has succeeded
NextStatementOrCommit_CommitsEarly(done) ==
  /\ IF done < 1 /\ done < Len(qQueries)
     THEN /\ qPhase' = "stmts" /\ Attempt(qQueries[done + 1])
     ELSE /\ qPhase' = "commit" /\ Attempt(CommitStmt)
  /\ UNCHANGED <<qOp, qReturn, qCaught>>

\* A catch block that throws the rollback's error when the rollback raises
ErrorAfterRollback_Masks(caught, outcome, n) ==
  IF outcome = "throw" THEN ThrownError(n) ELSE caught

\* the error thrown at line 238 after the n-th attempt, the ROLLBACK, has settled
\* with `outcome`: a rollback error is caught and logged at lines 229-231
ErrorAfterRollback(caught, outcome, n) == caught

\* the for loop of executeInTransaction moving on, lines 207-217
NextStatementOrCommit(done) ==
  /\ IF done < Len(qQueries)
     THEN /\ qPhase' = "stmts" /\ Attempt(qQueries[done + 1])
     ELSE /\ qPhase' = "commit" /\ Attempt(CommitStmt)
  /\ UNCHANGED <<qOp, qReturn, qCaught>>

\* executeInTransaction when the awaited executeQuery has settled, lines 205-239
ExecuteInTransactionResume(outcome) ==
  /\ qOp = "txn"
  /\ Settle(outcome)
  /\ CASE qPhase = "begin" ->
            \* line 205: the result of BEGIN is not looked at
            /\ IF outcome = "throw"
               THEN CatchAndRollback(ThrownError(Len(qAttempts)))
               ELSE NextStatementOrCommit(0)
            /\ UNCHANGED qResults
       [] qPhase = "stmts" ->
            IF outcome = "throw"
            THEN /\ CatchAndRollback(ThrownError(Len(qAttempts)))
                 /\ UNCHANGED qResults
            ELSE /\ qResults' = Append(qResults, QueryResultOf(outcome))
                 /\ IF outcome = "fail"
                    THEN CatchAndRollback(TransactionQueryFailed(Len(qAttempts)))
                    ELSE NextStatementOrCommit(Len(qResults) + 1)
       [] qPhase = "commit" ->
            \* line 217: the result of COMMIT is not looked at
            /\ IF outcome = "throw"
               THEN CatchAndRollback(ThrownError(Len(qAttempts)))
               ELSE /\ Returns("txn", qResults)
                    /\ UNCHANGED <<qPhase, qAttempts, qSentTo, qCaught>>
            /\ UNCHANGED qResults
       [] qPhase = "rollback" ->
            \* lines 226-238: a failed rollback is logged, the caught error is thrown
            /\ Raises("txn", ErrorAfterRollback(qCaught, outcome, Len(qAttempts)))
            /\ UNCHANGED <<qPhase, qAttempts, qSentTo, qCaught, qResults>>
  /\ UNCHANGED qQueries
  /\ UNCHANGED nonQueryVars

\* clearHistory, lines 188-191
ClearHistory ==
  /\ queryHistory # <<>>
  /\ queryHistory' = <<>>
  /\ UNCHANGED <<qOp, qQueries, qPhase, qInflight, qResults, qCaught, qAttempts, qSentTo,
                 qOutcomes, qReturn>>
  /\ UNCHANGED nonQueryVars

NextQuery ==
  \/ \E q \in {AllStmts[1], AllStmts[2]} : ExecuteQueryCall(q)
  \/ \E o \in AdapterOutcomes : ExecuteQueryResume(o)
  \/ \E qs \in QueryLists : ExecuteBatchCall(qs)
  \/ \E o \in AdapterOutcomes : ExecuteBatchResume(o)
  \/ \E qs \in QueryLists : ExecuteInTransactionCall(qs)
  \/ \E o \in AdapterOutcomes : ExecuteInTransactionResume(o)
  \/ ClearHistory

\* this.executeQuery of a transaction after its await, lines 43-44: a statement for
\* which getCurrentConnection() raised reaches no adapter and raises
TransactionStatementSettles(outcome) ==
  /\ qOp = "txn"
  /\ (qSentTo[Len(qSentTo)] = NoAdapter => outcome = "throw")
  /\ ExecuteInTransactionResume(outcome)

\* executeInTransaction of a QueryService whose dbManager is in use by other callers
NextTxn ==
  \/ \E id \in ConnectionIds :
        nextCall < MaxTxnConnCalls /\ CreateConnectionCall(id, "mssql")
  \/ \E c \in connCalls, ok \in BOOLEAN : CreateConnectionResume(c, ok)
  \/ \E id \in ConnectionIds : nextCall < MaxTxnConnCalls /\ SwitchConnection(id)
  \/ \E id \in ConnectionIds : nextCall < MaxTxnConnCalls /\ RemoveConnectionCall(id)
  \/ \E c \in connCalls, ok \in BOOLEAN : RemoveConnectionResume(c, ok)
  \/ \E qs \in TransactionLists : ExecuteInTransactionCall(qs)
  \/ \E o \in AdapterOutcomes : TransactionStatementSettles(o)

----------------------------------------------------------------------------
(* PerformanceAlert and the alert operations of PerformanceDomainService *)

NoTime == -1
AlertIds == 1..(MaxAlerts + 1)
NewAlertId == alertSeq + 1

\* new PerformanceAlert(id, type, severity, ...), part_011 lines 18-30
NewAlert(type, severity, t) ==
  [type |-> type, severity |-> severity, status |-> "active", createdAt |-> t,
   acknowledgedAt |-> NoTime, resolvedAt |-> NoTime]

\* InMemoryPerformanceAlertRepository.maxHistorySize (500), scaled down
MaxAlertHistorySize == 2

\* alertsHistory.push(alert) followed by the sort on createdAt, newest first,
\* part_015 lines 222-223: the sort is stable, so the pushed alert comes after
\* every alert that is not older than it
PushAndSort(history, store, id) ==
  LET notOlder == {i \in 1..Len(history) :
                     store[history[i]].createdAt >= store[id].createdAt}
      n == Cardinality(notOlder)
  IN SubSeq(history, 1, n) \o <<id>> \o SubSeq(history, n + 1, Len(history))

\* InMemoryPerformanceAlertRepository.save, part_015 lines 215-232: the store
\* and the history it leaves
RepositorySave(store, history, id, alert) ==
  LET set == [i \in (DOMAIN store) \cup {id} |-> IF i = id THEN alert ELSE store[i]]
      pushed == PushAndSort(history, set, id)
      kept == SubSeq(pushed, 1, MaxAlertHistorySize)
      removed == {pushed[i] : i \in (MaxAlertHistorySize + 1)..Len(pushed)}
  IN IF id \in DOMAIN store
     THEN [alerts |-> set, alertsHistory |-> history]
     ELSE IF Len(pushed) > MaxAlertHistorySize
     THEN [alerts |-> [i \in (DOMAIN set) \ removed |-> set[i]], alertsHistory |-> kept]
     ELSE [alerts |-> set, alertsHistory |-> pushed]

\* the alert types and severities of createConnectionPoolAlert,
\* createQueryPerformanceAlert and createSystemAlert
AlertTypes == {"connection_pool_high_utilization", "slow_query_detected", "high_cpu_usage"}
AlertSeverities == {"high", "critical"}

\* An acknowledge() without its guard
AcknowledgeThrows_Never(alert) == FALSE

\* acknowledge(), part_011 lines 69-71: the guard
AcknowledgeThrows(alert) == alert.status = "resolved"

\* An acknowledge() that sets the status and forgets the timestamp
Acknowledged_NoTimestamp(alert, t) == [alert EXCEPT !.status = "acknowledged"]

\* acknowledge(), part_011 lines 72-73
Acknowledged(alert, t) ==
  [alert EXCEPT !.status = "acknowledged", !.acknowledgedAt = t]

\* A resolve() that refuses an alert that was never acknowledged
Resolved_OnlyFromAcknowledged(alert, t) ==
  IF alert.status = "active" THEN alert
  ELSE [alert EXCEPT !.status = "resolved", !.resolvedAt = t]

\* resolve(), part_011 lines 76-79
Resolved(alert, t) ==
  [alert EXCEPT !.status = "resolved", !.resolvedAt = t]

AlertInit ==
  /\ alertStore = <<>>
  /\ alertNow = 0
  /\ alertCalls = {}
  /\ alertCallCount = 0
  /\ alertDone = [kind |-> "none", id |-> 0, status |-> "none", error |-> ""]
  /\ alertEscalation = [call |-> 0, thresholdMinutes |-> 0, at |-> 0, candidates |-> {}]
  /\ alertsHistory = <<>>
  /\ alertSeq = 0

AlertCompleted(c, status, error) ==
  alertDone' = [kind |-> c.kind, id |-> c.id, status |-> status, error |-> error]

\* time passes
AlertClockTick ==
  /\ alertNow < MaxAlertTime
  /\ alertNow' = alertNow + 1
  /\ UNCHANGED <<alertStore, alertCalls, alertCallCount, alertDone, alertEscalation>>
  /\ UNCHANGED <<alertsHistory, alertSeq>>
  /\ UNCHANGED nonAlertVars

\* an alert is constructed and saved: PerformanceDomainService lines 61-63 and
\* 130-149, InMemoryPerformanceAlertRepository.save
CreateAlert(type, severity) ==
  /\ alertSeq < MaxAlerts
  /\ alertSeq' = alertSeq + 1
  /\ LET saved == RepositorySave(alertStore, alertsHistory, NewAlertId,
                                 NewAlert(type, severity, alertNow))
     IN /\ alertStore' = saved.alerts
        /\ alertsHistory' = saved.alertsHistory
  /\ UNCHANGED <<alertNow, alertCalls, alertCallCount, alertDone, alertEscalation>>
  /\ UNCHANGED nonAlertVars

\* acknowledgeAlert / resolveAlert up to `await this.alertRepository.findById`,
\* lines 110-111 and 120-121: the repository looks the id up at once
AlertServiceCall(kind, id) ==
  /\ alertCallCount < MaxAlertCalls
  /\ alertCallCount' = alertCallCount + 1
  /\ alertCalls' = alertCalls \cup
       {[kind |-> kind, id |-> id, found |-> (id \in DOMAIN alertStore),
         pc |-> "findById"]}
  /\ UNCHANGED <<alertStore, alertNow, alertDone, alertEscalation>>
  /\ UNCHANGED <<alertsHistory, alertSeq>>
  /\ UNCHANGED nonAlertVars

\* acknowledgeAlert from the findById result to `await save`, lines 112-117
AcknowledgeAlertResume(c) ==
  /\ c \in alertCalls /\ c.kind = "acknowledge" /\ c.pc = "findById"
  /\ IF ~c.found
     THEN /\ alertCalls' = alertCalls \ {c}
          /\ AlertCompleted(c, "error", "Alert not found")
          /\ UNCHANGED alertStore
     ELSE IF AcknowledgeThrows(alertStore[c.id])
     THEN /\ alertCalls' = alertCalls \ {c}
          /\ AlertCompleted(c, "error", "Cannot acknowledge a resolved alert")
          /\ UNCHANGED alertStore
     ELSE /\ alertStore' = [alertStore EXCEPT ![c.id] = Acknowledged(@, alertNow)]
          /\ alertCalls' = (alertCalls \ {c}) \cup {[c EXCEPT !.pc = "save"]}
          /\ UNCHANGED alertDone
  /\ UNCHANGED <<alertNow, alertCallCount, alertEscalation>>
  /\ UNCHANGED <<alertsHistory, alertSeq>>
  /\ UNCHANGED nonAlertVars

\* resolveAlert from the findById result to `await save`, lines 122-127
ResolveAlertResume(c) ==
  /\ c \in alertCalls /\ c.kind = "resolve" /\ c.pc = "findById"
  /\ IF ~c.found
     THEN /\ alertCalls' = alertCalls \ {c}
          /\ AlertCompleted(c, "error", "Alert not found")
          /\ UNCHANGED alertStore
     ELSE /\ alertStore' = [alertStore EXCEPT ![c.id] = Resolved(@, alertNow)]
          /\ alertCalls' = (alertCalls \ {c}) \cup {[c EXCEPT !.pc = "save"]}
          /\ UNCHANGED alertDone
  /\ UNCHANGED <<alertNow, alertCallCount, alertEscalation>>
  /\ UNCHANGED <<alertsHistory, alertSeq>>
  /\ UNCHANGED nonAlertVars

\* acknowledgeAlert / resolveAlert after `await save`, lines 117-118 and 127-128
AlertServiceReturn(c) ==
  /\ c \in alertCalls /\ c.pc = "save"
  /\ alertCalls' = alertCalls \ {c}
  /\ AlertCompleted(c, "ok", "")
  /\ UNCHANGED <<alertStore, alertNow, alertCallCount, alertEscalation>>
  /\ UNCHANGED <<alertsHistory, alertSeq>>
  /\ UNCHANGED nonAlertVars

\* the thresholds a caller passes, in minutes (one clock tick is one minute)
EscalationThresholds == {0, 1}

\* A shouldEscalate that does not look at the status
ShouldEscalate_IgnoresStatus(alert, thresholdMinutes, now) ==
  now - alert.createdAt > thresholdMinutes

\* shouldEscalate(thresholdMinutes), part_011 lines 102-109
ShouldEscalate(alert, thresholdMinutes, now) ==
  IF alert.status # "active" THEN FALSE
  ELSE now - alert.createdAt > thresholdMinutes

\* InMemoryPerformanceAlertRepository.findEscalationCandidates, part_015 lines
\* 264-266
FindEscalationCandidates(thresholdMinutes) ==
  /\ alertCallCount < MaxAlertCalls
  /\ alertCallCount' = alertCallCount + 1
  /\ alertEscalation' =
       [call |-> alertCallCount + 1, thresholdMinutes |-> thresholdMinutes,
        at |-> alertNow,
        candidates |-> {id \in DOMAIN alertStore :
                          ShouldEscalate(alertStore[id], thresholdMinutes, alertNow)}]
  /\ UNCHANGED <<alertStore, alertNow, alertCalls, alertDone>>
  /\ UNCHANGED <<alertsHistory, alertSeq>>
  /\ UNCHANGED nonAlertVars

\* the alerts created in the runs of the status operations, which look at
\* neither the type nor the severity
CreatedAlertKinds == {<<"connection_pool_high_utilization", "critical">>}

NextAlert ==
  \/ AlertClockTick
  \/ \E kind \in CreatedAlertKinds : CreateAlert(kind[1], kind[2])
  \/ \E k \in {"acknowledge", "resolve"}, id \in AlertIds : AlertServiceCall(k, id)
  \/ \E c \in alertCalls : AcknowledgeAlertResume(c)
  \/ \E c \in alertCalls : ResolveAlertResume(c)
  \/ \E c \in alertCalls : AlertServiceReturn(c)
  \/ \E m \in EscalationThresholds : FindEscalationCandidates(m)

----------------------------------------------------------------------------
(* PerformanceMetric and PerformanceDomainService.evaluateAndCreateAlerts *)

\* the metrics that are evaluated: values on both sides of every threshold
PoolUtilizations == {69, 70, 90}
QueryMetricValues ==
  {[averageExecutionTime |-> 2000, slowQueries |-> 1, totalQueries |-> 20],
   [averageExecutionTime |-> 2001, slowQueries |-> 0, totalQueries |-> 0],
   [averageExecutionTime |-> 0, slowQueries |-> 2, totalQueries |-> 10]}
SystemMetricValues ==
  {[cpuUsage |-> 70, memoryUsage |-> 70, diskUsage |-> 70],
   [cpuUsage |-> 71, memoryUsage |-> 0, diskUsage |-> 0],
   [cpuUsage |-> 0, memoryUsage |-> 71, diskUsage |-> 0],
   [cpuUsage |-> 0, memoryUsage |-> 0, diskUsage |-> 91]}
Metrics ==
  [utilization : PoolUtilizations, query : QueryMetricValues, system : SystemMetricValues]
NoMetric == [utilization |-> 0, query |-> "none", system |-> "none"]

\* PerformanceMetric.evaluateConnectionPoolHealth, PerformanceMetric.ts lines 55-61
EvaluateConnectionPoolHealth(metric) ==
  IF metric.utilization >= 90 THEN "critical"
  ELSE IF metric.utilization >= 70 THEN "warning"
  ELSE "healthy"

\* slowQueries / totalQueries > num / den in floating point: 0/0 is NaN, which
\* is greater than nothing, and n/0 is Infinity
RatioExceeds(slow, total, num, den) ==
  IF total = 0 THEN slow > 0 ELSE slow * den > total * num

\* PerformanceMetric.evaluateQueryPerformance, lines 63-70
EvaluateQueryPerformance(metric) ==
  LET avgTime == metric.query.averageExecutionTime
      slow == metric.query.slowQueries
      total == metric.query.totalQueries
  IN IF avgTime > 5000 \/ RatioExceeds(slow, total, 1, 10) THEN "critical"
     ELSE IF avgTime > 2000 \/ RatioExceeds(slow, total, 1, 20) THEN "warning"
     ELSE "healthy"

\* PerformanceMetric.evaluateSystemHealth, lines 72-78
EvaluateSystemHealth(metric) ==
  LET sys == metric.system
  IN IF sys.cpuUsage > 90 \/ sys.memoryUsage > 90 \/ sys.diskUsage > 90 THEN "critical"
     ELSE IF sys.cpuUsage > 70 \/ sys.memoryUsage > 70 \/ sys.diskUsage > 70
     THEN "warning"
     ELSE "healthy"

\* the three evaluations of evaluateAndCreateAlerts in their order, lines 58-80
Evaluations == 1..3
HealthOf(metric, evaluation) ==
  CASE evaluation = 1 -> EvaluateConnectionPoolHealth(metric)
    [] evaluation = 2 -> EvaluateQueryPerformance(metric)
    [] evaluation = 3 -> EvaluateSystemHealth(metric)

\* the type given by createConnectionPoolAlert, createQueryPerformanceAlert and
\* createSystemAlert, lines 139, 159 and 179
AlertTypeOf(evaluation) ==
  CASE evaluation = 1 -> "connection_pool_high_utilization"
    [] evaluation = 2 -> "slow_query_detected"
    [] evaluation = 3 -> "high_cpu_usage"

\* A severity that does not tell critical from warning
SeverityOf_AlwaysHigh(health) == "high"

\* const severity = health === 'critical' ? 'critical' : 'high', lines 135, 155, 175
SeverityOf(health) == IF health = "critical" THEN "critical" ELSE "high"

\* the first evaluation from `from` on that is not healthy, 4 if there is none
FirstUnhealthyFrom(metric, from) ==
  LET unhealthy == {e \in Evaluations : e >= from /\ HealthOf(metric, e) # "healthy"}
  IN IF unhealthy = {} THEN 4 ELSE CHOOSE e \in unhealthy : \A f \in unhealthy : e <= f

EvalInit ==
  /\ evalMetric = NoMetric
  /\ evalPc = 0
  /\ evalAlerts = <<>>
  /\ evalCount = 0

\* evaluateAndCreateAlerts from evaluation `from` on, up to the next
\* `await this.alertRepository.save(alert)` or to the return, lines 58-82
RunEvaluations(metric, from, alerts) ==
  LET e == FirstUnhealthyFrom(metric, from)
      alert == NewAlert(AlertTypeOf(e), SeverityOf(HealthOf(metric, e)), alertNow)
      saved == RepositorySave(alertStore, alertsHistory, NewAlertId, alert)
  IN IF e = 4
     THEN /\ evalPc' = 0
          /\ evalAlerts' = alerts
          /\ UNCHANGED <<alertStore, alertsHistory, alertSeq>>
     ELSE /\ evalPc' = e + 1
          /\ evalAlerts' = Append(alerts, [id |-> NewAlertId, alert |-> alert])
          /\ alertSeq' = alertSeq + 1
          /\ alertStore' = saved.alerts
          /\ alertsHistory' = saved.alertsHistory

\* evaluateAndCreateAlerts(metric) up to its first await, lines 55-63
EvaluateAndCreateAlertsCall(metric) ==
  /\ evalPc = 0
  /\ evalCount < MaxEvals
  /\ evalCount' = evalCount + 1
  /\ evalMetric' = metric
  /\ RunEvaluations(metric, 1, <<>>)
  /\ UNCHANGED <<alertNow, alertCalls, alertCallCount, alertDone, alertEscalation>>
  /\ UNCHANGED nonEvalVars

\* evaluateAndCreateAlerts after an await of save(), lines 63-82
EvaluateAndCreateAlertsResume ==
  /\ evalPc \in 2..4
  /\ RunEvaluations(evalMetric, evalPc, evalAlerts)
  /\ UNCHANGED <<evalMetric, evalCount>>
  /\ UNCHANGED <<alertNow, alertCalls, alertCallCount, alertDone, alertEscalation>>
  /\ UNCHANGED nonEvalVars

NextEval ==
  \/ AlertClockTick
  \/ \E metric \in Metrics : EvaluateAndCreateAlertsCall(metric)
  \/ EvaluateAndCreateAlertsResume

----------------------------------------------------------------------------
(* SchemaService *)

\* private cacheExpiration = 5 * 60 * 1000, in clock ticks of 2.5 minutes
CacheExpiration == 2

\* Strings are sequences of characters, so that template literals concatenate
StrSchema == <<"s", "c", "h", "e", "m", "a", "_">>
StrTables == <<"t", "a", "b", "l", "e", "s", "_">>
StrTable == <<"t", "a", "b", "l", "e", "_">>
StrAll == <<"a", "l", "l">>
StrTrue == <<"t", "r", "u", "e">>
StrFalse == <<"f", "a", "l", "s", "e">>
StrUsers == <<"u", "s", "e", "r", "s">>
NoPattern == <<>>
BoolStr(b) == IF b THEN StrTrue ELSE StrFalse

\* the lookups a caller makes
SchemaRequests ==
  {[op |-> "getSchema", includeSystemTables |-> FALSE, includeDetailedInfo |-> TRUE],
   [op |-> "getTables", pattern |-> NoPattern],
   [op |-> "getTables", pattern |-> StrAll],
   [op |-> "getTableInfo", tableName |-> StrUsers]}

\* the cache key of a lookup, lines 294, 337 and 374
CacheKey(req) ==
  CASE req.op = "getSchema" ->
         StrSchema \o BoolStr(req.includeSystemTables) \o <<"_">>
                   \o BoolStr(req.includeDetailedInfo)
    [] req.op = "getTables" ->
         StrTables \o (IF req.pattern # NoPattern THEN req.pattern ELSE StrAll)
    [] req.op = "getTableInfo" -> StrTable \o req.tableName

\* what the adapter answers to a lookup when the database schema is at `version`;
\* from: the adapter that getCurrentConnection() gave (lines 306, 345, 383)
AdapterData(req, version) == [of |-> req, version |-> version, from |-> CurrentAdapter]
NoData == [of |-> "none", version |-> 0, from |-> NoAdapter]

\* An isCacheValid that never lets an entry expire
IsExpired_Never(cached, now) == FALSE

\* An isCacheValid that expires an entry as soon as its age reaches the TTL
IsExpired_AtTtl(cached, now) == now - cached.timestamp >= CacheExpiration

\* isCacheValid, line 482
IsExpired(cached, now) == now - cached.timestamp > CacheExpiration

\* isCacheValid, lines 478-489: the answer
IsCacheValid(cache, key, now) ==
  /\ key \in DOMAIN cache
  /\ ~IsExpired(cache[key], now)

\* isCacheValid, lines 483-486: the cache it leaves (an expired entry is deleted)
AfterIsCacheValid(cache, key, now) ==
  IF key \in DOMAIN cache /\ IsExpired(cache[key], now)
  THEN [k \in (DOMAIN cache) \ {key} |-> cache[k]]
  ELSE cache

\* updateCache, lines 491-496
UpdateCache(cache, key, data, now) ==
  [k \in (DOMAIN cache) \cup {key} |->
     IF k = key THEN [data |-> data, timestamp |-> now] ELSE cache[k]]

CacheInit ==
  /\ schemaCache = <<>>
  /\ cacheNow = 0
  /\ backendVersion = 0
  /\ cacheCalls = {}
  /\ cacheCallCount = 0
  /\ adapterFetches = 0
  /\ cacheLast = [req |-> "none", outcome |-> "none", data |-> NoData, age |-> 0]

\* time passes
CacheClockTick ==
  /\ cacheNow < MaxCacheTime
  /\ cacheNow' = cacheNow + 1
  /\ UNCHANGED <<schemaCache, backendVersion, cacheCalls, cacheCallCount,
                 adapterFetches, cacheLast>>
  /\ UNCHANGED nonCacheVars

\* the database schema is changed by somebody
SchemaChanges ==
  /\ backendVersion < MaxSchemaVersion
  /\ backendVersion' = backendVersion + 1
  /\ UNCHANGED <<schemaCache, cacheNow, cacheCalls, cacheCallCount, adapterFetches,
                 cacheLast>>
  /\ UNCHANGED nonCacheVars

\* getSchema, getTables, getTableInfo up to the await of the adapter call, lines
\* 290-306, 336-345 and 373-383; hasConnection: getCurrentConnection() returns
SchemaLookupCall(req, hasConnection) ==
  /\ cacheCallCount < MaxCacheCalls
  /\ cacheCallCount' = cacheCallCount + 1
  /\ schemaCache' = AfterIsCacheValid(schemaCache, CacheKey(req), cacheNow)
  /\ IF IsCacheValid(schemaCache, CacheKey(req), cacheNow)
     THEN /\ cacheLast' = [req |-> req, outcome |-> "hit",
                           data |-> schemaCache[CacheKey(req)].data,
                           age |-> cacheNow - schemaCache[CacheKey(req)].timestamp]
          /\ UNCHANGED <<cacheCalls, adapterFetches>>
     ELSE IF hasConnection
     THEN /\ adapterFetches' = adapterFetches + 1
          /\ cacheCalls' = cacheCalls \cup
               {[req |-> req, call |-> cacheCallCount + 1, adapter |-> CurrentAdapter]}
          /\ cacheLast' = [req |-> req, outcome |-> "miss", data |-> NoData, age |-> 0]
     ELSE /\ cacheLast' = [req |-> req, outcome |-> "raised", data |-> NoData, age |-> 0]
          /\ UNCHANGED <<cacheCalls, adapterFetches>>
  /\ UNCHANGED <<cacheNow, backendVersion>>
  /\ UNCHANGED nonCacheVars

\* getSchema, getTables, getTableInfo after the await, lines 306-331, 345-368 and
\* 383-400
SchemaLookupResume(c, adapterOk) ==
  /\ c \in cacheCalls
  /\ cacheCalls' = cacheCalls \ {c}
  /\ IF adapterOk
     THEN LET data == [AdapterData(c.req, backendVersion) EXCEPT !.from = c.adapter]
          IN /\ schemaCache' = UpdateCache(schemaCache, CacheKey(c.req), data, cacheNow)
             /\ cacheLast' = [req |-> c.req, outcome |-> "fetched", data |-> data,
                              age |-> 0]
     ELSE /\ cacheLast' = [req |-> c.req, outcome |-> "raised", data |-> NoData,
                           age |-> 0]
          /\ UNCHANGED schemaCache
  /\ UNCHANGED <<cacheNow, backendVersion, cacheCallCount, adapterFetches>>
  /\ UNCHANGED nonCacheVars

\* clearCache, lines 453-463
ClearCache ==
  /\ schemaCache # <<>>
  /\ schemaCache' = <<>>
  /\ UNCHANGED <<cacheNow, backendVersion, cacheCalls, cacheCallCount, adapterFetches,
                 cacheLast>>
  /\ UNCHANGED nonCacheVars

NextCache ==
  \/ CacheClockTick
  \/ SchemaChanges
  \/ \E req \in SchemaRequests, hc \in BOOLEAN : SchemaLookupCall(req, hc)
  \/ \E c \in cacheCalls, ok \in BOOLEAN : SchemaLookupResume(c, ok)
  \/ ClearCache

\* the lookups of a SchemaService whose dbManager gets connections created and
\* switched; getCurrentConnection() returns when there is a current adapter
NextSchemaSwitch ==
  \/ \E id \in ConnectionIds :
        nextCall < MaxTxnConnCalls /\ CreateConnectionCall(id, "mssql")
  \/ \E c \in connCalls, ok \in BOOLEAN : CreateConnectionResume(c, ok)
  \/ \E id \in ConnectionIds : nextCall < MaxTxnConnCalls /\ SwitchConnection(id)
  \/ \E req \in SchemaRequests : SchemaLookupCall(req, CurrentAdapter # NoAdapter)
  \/ \E c \in cacheCalls, ok \in BOOLEAN : SchemaLookupResume(c, ok)

----------------------------------------------------------------------------
(* getSchemaStatistics: SchemaService (part_003) and SchemaRepositoryImpl *)

\* this.getSchema() with its default arguments, part_003 line 407
StatsSchemaRequest ==
  [op |-> "getSchema", includeSystemTables |-> FALSE, includeDetailedInfo |-> TRUE]
\* this.getTableInfo(schema.tables[0].name), line 416
StatsTableRequest == [op |-> "getTableInfo", tableName |-> StrUsers]

\* the queries SchemaRepositoryImpl.getSchemaStatistics sends, lines 97-142
RepositoryStatisticsQueries == 1..7

NoStats == [path |-> "none", status |-> "none", stats |-> <<>>, adapterCalls |-> 0,
            calledAt |-> 0]

StatsInit ==
  /\ statsPath = "none"
  /\ statsPc = "idle"
  /\ statsData = <<>>
  /\ statsStart = [at |-> 0, fetches |-> 0]
  /\ statsCount = 0
  /\ statsPrev = NoStats
  /\ statsLast = NoStats

\* a getSchemaStatistics is entered: the caller's previous call has completed
StatsEnter(path) ==
  /\ statsPc = "idle"
  /\ statsCount < MaxStatsCalls
  /\ statsCount' = statsCount + 1
  /\ statsPath' = path
  /\ statsStart' = [at |-> cacheNow, fetches |-> adapterFetches]

\* the running call ends: status "returned" with the statistics, or "raised"
StatsEnds(path, status, stats, fetches) ==
  /\ statsPc' = "idle"
  /\ statsData' = <<>>
  /\ statsPrev' = statsLast
  /\ statsLast' = [path |-> path, status |-> status, stats |-> stats,
                   adapterCalls |-> fetches - statsStart'.fetches,
                   calledAt |-> statsStart'.at]

\* SchemaService.getSchemaStatistics from `this.getTableInfo(...)` on, part_003
\* lines 413-443, with the schema in hand and the cache as getSchema left it:
\* a failure of getTableInfo is logged and the statistics go without the table
StatsTableLookup(cache, schema, fetches, hasConnection) ==
  LET key == CacheKey(StatsTableRequest)
  IN IF IsCacheValid(cache, key, cacheNow)
     THEN /\ schemaCache' = cache
          /\ adapterFetches' = fetches
          /\ StatsEnds("service", "returned", <<schema, cache[key].data>>, fetches)
     ELSE IF hasConnection
     THEN /\ schemaCache' = AfterIsCacheValid(cache, key, cacheNow)
          /\ adapterFetches' = fetches + 1
          /\ statsPc' = "getTableInfo"
          /\ statsData' = <<schema>>
          /\ UNCHANGED <<statsPrev, statsLast>>
     ELSE /\ schemaCache' = AfterIsCacheValid(cache, key, cacheNow)
          /\ adapterFetches' = fetches
          /\ StatsEnds("service", "returned", <<schema, NoData>>, fetches)

\* SchemaService.getSchemaStatistics up to its first await on the adapter,
\* part_003 lines 404-416
SchemaStatisticsCall(hasConnection) ==
  /\ StatsEnter("service")
  /\ LET key == CacheKey(StatsSchemaRequest)
         swept == AfterIsCacheValid(schemaCache, key, cacheNow)
     IN IF IsCacheValid(schemaCache, key, cacheNow)
        THEN StatsTableLookup(schemaCache, schemaCache[key].data, adapterFetches,
                              hasConnection)
        ELSE IF hasConnection
        THEN /\ schemaCache' = swept
             /\ adapterFetches' = adapterFetches + 1
             /\ statsPc' = "getSchema"
             /\ statsData' = <<>>
             /\ UNCHANGED <<statsPrev, statsLast>>
        ELSE /\ schemaCache' = swept
             /\ UNCHANGED adapterFetches
             /\ StatsEnds("service", "raised", <<>>, adapterFetches)
  /\ UNCHANGED <<cacheNow, backendVersion, cacheCalls, cacheCallCount, cacheLast>>
  /\ UNCHANGED nonStatsVars

\* SchemaService.getSchemaStatistics when the adapter's getSchema has settled,
\* part_003 lines 306-309 and 407-416
SchemaStatisticsSchemaFetched(adapterOk, hasConnection) ==
  /\ statsPath = "service" /\ statsPc = "getSchema"
  /\ UNCHANGED <<statsPath, statsStart, statsCount>>
  /\ LET schema == AdapterData(StatsSchemaRequest, backendVersion)
     IN IF adapterOk
        THEN StatsTableLookup(UpdateCache(schemaCache, CacheKey(StatsSchemaRequest),
                                          schema, cacheNow),
                              schema, adapterFetches, hasConnection)
        ELSE /\ StatsEnds("service", "raised", <<>>, adapterFetches)
             /\ UNCHANGED <<schemaCache, adapterFetches>>
  /\ UNCHANGED <<cacheNow, backendVersion, cacheCalls, cacheCallCount, cacheLast>>
  /\ UNCHANGED nonStatsVars

\* SchemaService.getSchemaStatistics when the adapter's getTableInfo has settled,
\* part_003 lines 383-385 and 416-443
SchemaStatisticsTableFetched(adapterOk) ==
  /\ statsPath = "service" /\ statsPc = "getTableInfo"
  /\ UNCHANGED <<statsPath, statsStart, statsCount, adapterFetches>>
  /\ LET table == AdapterData(StatsTableRequest, backendVersion)
     IN IF adapterOk
        THEN /\ schemaCache' = UpdateCache(schemaCache, CacheKey(StatsTableRequest),
                                           table, cacheNow)
             /\ StatsEnds("service", "returned", <<statsData[1], table>>, adapterFetches)
        ELSE /\ StatsEnds("service", "returned", <<statsData[1], NoData>>, adapterFetches)
             /\ UNCHANGED schemaCache
  /\ UNCHANGED <<cacheNow, backendVersion, cacheCalls, cacheCallCount, cacheLast>>
  /\ UNCHANGED nonStatsVars

\* SchemaRepositoryImpl.getSchemaStatistics up to its first await, lines 84-97,
\* reached through GetSchemaStatisticsUseCase.execute from
\* SchemaHandler.handleGetSchemaStatistics
RepositoryStatisticsCall(hasConnection) ==
  /\ StatsEnter("repository")
  /\ IF hasConnection
     THEN /\ adapterFetches' = adapterFetches + 1
          /\ statsPc' = "executeQuery"
          /\ statsData' = <<>>
          /\ UNCHANGED <<statsPrev, statsLast>>
     ELSE /\ StatsEnds("repository", "raised", <<>>, adapterFetches)
          /\ UNCHANGED adapterFetches
  /\ UNCHANGED <<schemaCache, cacheNow, backendVersion, cacheCalls, cacheCallCount,
                 cacheLast>>
  /\ UNCHANGED nonStatsVars

\* SchemaRepositoryImpl.getSchemaStatistics when a query has settled, lines
\* 97-175: the count read is the database's at that moment
RepositoryStatisticsQueryReturns(adapterOk) ==
  /\ statsPath = "repository" /\ statsPc = "executeQuery"
  /\ UNCHANGED <<statsPath, statsStart, statsCount>>
  /\ LET read == Append(statsData, backendVersion)
     IN IF ~adapterOk
        THEN /\ StatsEnds("repository", "raised", <<>>, adapterFetches)
             /\ UNCHANGED adapterFetches
        ELSE IF Len(read) < Cardinality(RepositoryStatisticsQueries)
        THEN /\ statsData' = read
             /\ adapterFetches' = adapterFetches + 1
             /\ UNCHANGED <<statsPc, statsPrev, statsLast>>
        ELSE /\ StatsEnds("repository", "returned", read, adapterFetches)
             /\ UNCHANGED adapterFetches
  /\ UNCHANGED <<schemaCache, cacheNow, backendVersion, cacheCalls, cacheCallCount,
                 cacheLast>>
  /\ UNCHANGED nonStatsVars

NextStats ==
  \/ CacheClockTick
  \/ SchemaChanges
  \/ \E hc \in BOOLEAN : SchemaStatisticsCall(hc)
  \/ \E ok \in BOOLEAN, hc \in BOOLEAN : SchemaStatisticsSchemaFetched(ok, hc)
  \/ \E ok \in BOOLEAN : SchemaStatisticsTableFetched(ok)
  \/ \E hc \in BOOLEAN : RepositoryStatisticsCall(hc)
  \/ \E ok \in BOOLEAN : RepositoryStatisticsQueryReturns(ok)

----------------------------------------------------------------------------
(* PerformanceMonitor and StartPerformanceMonitoringUseCase *)

NoTimer == 0

\* the values of maxMetricsHistory a configuration gives (1000 by default)
ConfiguredMaxMetricsHistory == {0, 1, 2}

\* Array.prototype.slice(start): a negative start counts from the end, and -0
\* is 0, the start of the array
Slice(array, start) ==
  LET from == IF start < 0
              THEN (IF Len(array) + start > 0 THEN Len(array) + start ELSE 0)
              ELSE (IF start < Len(array) THEN start ELSE Len(array))
  IN SubSeq(array, from + 1, Len(array))

\* An addMetric that keeps only the metric it was given
AddMetric_DropsOlder(metrics, metric, maxMetricsHistory) == <<metric>>

\* addMetric, lines 160-167
AddMetric(metrics, metric, maxMetricsHistory) ==
  LET pushed == Append(metrics, metric)
  IN IF Len(pushed) > maxMetricsHistory
     THEN Slice(pushed, -maxMetricsHistory)
     ELSE pushed

\* the alerts history is cut to its last 1000 entries, line 253
MaxMonitorAlerts == 1000

\* generateAlert, lines 218-256
GenerateAlert(alerts, type, metric, of) ==
  LET pushed == Append(alerts, [type |-> type, metric |-> metric, of |-> of,
                                resolved |-> FALSE])
  IN IF Len(pushed) > MaxMonitorAlerts
     THEN Slice(pushed, -MaxMonitorAlerts)
     ELSE pushed

\* the thresholds checkThresholds compares, in its order, lines 171-217
ThresholdChecks ==
  <<[metric |-> "cpuUsage", type |-> "warning"],
    [metric |-> "memoryUsage", type |-> "warning"],
    [metric |-> "connectionCount", type |-> "critical"],
    [metric |-> "errorRate", type |-> "critical"]>>

\* the thresholds a collected metric exceeds
MetricBreaches == {{}, {"cpuUsage", "connectionCount"}}

\* checkThresholds from its i-th comparison on, lines 168-217
RECURSIVE CheckThresholds(_, _, _, _)
CheckThresholds(alerts, exceeded, of, i) ==
  IF i > Len(ThresholdChecks)
  THEN alerts
  ELSE CheckThresholds(IF ThresholdChecks[i].metric \in exceeded
                       THEN GenerateAlert(alerts, ThresholdChecks[i].type,
                                          ThresholdChecks[i].metric, of)
                       ELSE alerts,
                       exceeded, of, i + 1)

\* private readonly maxHistorySize = 1000 of the metric repository, scaled
MaxMetricHistorySize == 2

\* metricsHistory.push(metric) followed by the sort on timestamp, newest first,
\* part_015 lines 156-157: the sort is stable, so the pushed metric comes after
\* every metric that is not older than it
MetricPushAndSort(history, metric) ==
  LET n == Cardinality({i \in 1..Len(history) :
                          history[i].timestamp >= metric.timestamp})
  IN SubSeq(history, 1, n) \o <<metric>> \o SubSeq(history, n + 1, Len(history))

\* InMemoryPerformanceMetricRepository.save, part_015 lines 152-166: the map and
\* the history it leaves; its body has no await
MetricRepositorySave(metrics, history, metric) ==
  LET set == metrics \cup {metric.id}
      pushed == MetricPushAndSort(history, metric)
      removed == {pushed[i].id : i \in (MaxMetricHistorySize + 1)..Len(pushed)}
  IN IF Len(pushed) > MaxMetricHistorySize
     THEN [metrics |-> set \ removed,
           metricsHistory |-> SubSeq(pushed, 1, MaxMetricHistorySize)]
     ELSE [metrics |-> set, metricsHistory |-> pushed]

\* PerformanceDomainService.collectAndStoreMetrics after the collector gave its
\* raw metrics, lines 38-47: a metric with a fresh id and the time of the clock
\* is built and saved in the same synchronous stretch
CollectAndStoreMetrics ==
  \E t \in {mrNow, mrNow + 1} :
    /\ t <= MaxMetricTime
    /\ LET metric == [id |-> ucStored + 1, timestamp |-> t]
           saved == MetricRepositorySave(mrMetrics, mrHistory, metric)
       IN /\ mrMetrics' = saved.metrics
          /\ mrHistory' = saved.metricsHistory
          /\ mrSaved' = Append(mrSaved, metric)
    /\ mrNow' = t

MonInit ==
  /\ liveTimers = {}
  /\ nextTimer = 1
  /\ monCallCount = 0
  /\ monCalled = "none"
  /\ tickCount = 0
  /\ pmIsMonitoring = FALSE
  /\ pmInterval = NoTimer
  /\ pmInflight = {}
  /\ pmMetrics = <<>>
  /\ pmMaxMetricsHistory \in ConfiguredMaxMetricsHistory
  /\ pmCollected = <<>>
  /\ pmAlerts = <<>>
  /\ pmDone = [op |-> "none", status |-> "none"]
  /\ ucIsMonitoring = FALSE
  /\ ucInterval = NoTimer
  /\ ucPending = 0
  /\ ucInflight = {}
  /\ ucStored = 0
  /\ mrMetrics = {}
  /\ mrHistory = <<>>
  /\ mrSaved = <<>>
  /\ mrNow = 0
  /\ ucOverlapped = FALSE
  /\ ucDone = [op |-> "none", success |-> FALSE, error |-> "none"]

\* a public method of either class is called
MonCall(method) ==
  /\ monCallCount < MaxMonCalls
  /\ monCallCount' = monCallCount + 1
  /\ monCalled' = method

\* setInterval(...) returning the handle `timer`
SetInterval(timer) ==
  /\ nextTimer <= MaxTimers
  /\ timer = nextTimer
  /\ nextTimer' = nextTimer + 1
  /\ liveTimers' = liveTimers \cup {timer}

\* A startMonitoring without the isMonitoring guard
StartMonitoring_NoGuard ==
  /\ MonCall("startMonitoring")
  /\ pmIsMonitoring' = TRUE
  /\ SetInterval(pmInterval')
  /\ pmDone' = [op |-> "startMonitoring", status |-> "started"]
  /\ UNCHANGED <<tickCount, pmInflight, pmMetrics, pmMaxMetricsHistory, pmCollected,
                 pmAlerts, ucVars, mrVars>>
  /\ UNCHANGED nonMonVars

\* PerformanceMonitor.startMonitoring, lines 44-60
StartMonitoring ==
  /\ MonCall("startMonitoring")
  /\ IF pmIsMonitoring
     THEN /\ pmDone' = [op |-> "startMonitoring", status |-> "warned"]
          /\ UNCHANGED <<pmIsMonitoring, pmInterval, liveTimers, nextTimer>>
     ELSE /\ pmIsMonitoring' = TRUE
          /\ SetInterval(pmInterval')
          /\ pmDone' = [op |-> "startMonitoring", status |-> "started"]
  /\ UNCHANGED <<tickCount, pmInflight, pmMetrics, pmMaxMetricsHistory, pmCollected,
                 pmAlerts, ucVars, mrVars>>
  /\ UNCHANGED nonMonVars

\* PerformanceMonitor.stopMonitoring, lines 65-82
StopMonitoring ==
  /\ MonCall("stopMonitoring")
  /\ IF ~pmIsMonitoring
     THEN /\ pmDone' = [op |-> "stopMonitoring", status |-> "warned"]
          /\ UNCHANGED <<pmIsMonitoring, pmInterval, liveTimers>>
     ELSE /\ pmIsMonitoring' = FALSE
          /\ liveTimers' = liveTimers \ {pmInterval}
          /\ pmInterval' = NoTimer
          /\ pmDone' = [op |-> "stopMonitoring", status |-> "stopped"]
  /\ UNCHANGED <<nextTimer, tickCount, pmInflight, pmMetrics, pmMaxMetricsHistory,
                 pmCollected, pmAlerts, ucVars, mrVars>>
  /\ UNCHANGED nonMonVars

\* the monitoring interval elapses: every live timer runs its callback, which
\* starts one metric collection (part_005 lines 57-59, use case lines 38-44)
IntervalElapses ==
  /\ tickCount < MaxTicks
  /\ liveTimers # {}
  /\ tickCount' = tickCount + 1
  /\ pmInflight' = pmInflight \cup
       {[tick |-> tickCount + 1, timer |-> t] : t \in liveTimers \cap {pmInterval}}
  /\ ucInflight' = ucInflight \cup
       {[tick |-> tickCount + 1, timer |-> t] : t \in liveTimers \ {pmInterval}}
  /\ UNCHANGED <<liveTimers, nextTimer, monCallCount, monCalled>>
  /\ UNCHANGED <<pmIsMonitoring, pmInterval, pmMetrics, pmMaxMetricsHistory,
                 pmCollected, pmAlerts, pmDone>>
  /\ UNCHANGED <<ucIsMonitoring, ucInterval, ucPending, ucStored, ucOverlapped, ucDone>>
  /\ UNCHANGED mrVars
  /\ UNCHANGED nonMonVars

\* collectAndCheckMetrics after the await of the collector, lines 148-158
CollectAndCheckMetricsResume(c, collected) ==
  /\ c \in pmInflight
  /\ pmInflight' = pmInflight \ {c}
  /\ pmMetrics' = IF collected THEN AddMetric(pmMetrics, c.tick, pmMaxMetricsHistory)
                  ELSE pmMetrics
  /\ pmCollected' = IF collected THEN Append(pmCollected, c.tick) ELSE pmCollected
  /\ IF collected
     THEN \E exceeded \in MetricBreaches :
            pmAlerts' = CheckThresholds(pmAlerts, exceeded, c.tick, 1)
     ELSE UNCHANGED pmAlerts
  /\ UNCHANGED <<pmIsMonitoring, pmInterval, pmMaxMetricsHistory, pmDone, timerVars,
                 ucVars, mrVars>>
  /\ UNCHANGED nonMonVars

\* the timer callback of the use case after its await, lines 38-44
UcTimerCallbackResume(c, collected) ==
  /\ c \in ucInflight
  /\ ucInflight' = ucInflight \ {c}
  /\ ucStored' = IF collected THEN ucStored + 1 ELSE ucStored
  /\ IF collected THEN CollectAndStoreMetrics ELSE UNCHANGED mrVars
  /\ UNCHANGED <<ucIsMonitoring, ucInterval, ucPending, ucOverlapped, ucDone>>
  /\ UNCHANGED <<timerVars, pmVars>>
  /\ UNCHANGED nonMonVars

\* StartPerformanceMonitoringUseCase.execute up to its await, lines 20-35
UcExecuteCall ==
  /\ MonCall("execute")
  /\ IF ucIsMonitoring
     THEN /\ ucDone' = [op |-> "execute", success |-> FALSE,
                        error |-> "Monitoring already active"]
          /\ UNCHANGED <<ucPending, ucOverlapped>>
     ELSE /\ ucPending < MaxUcPending
          /\ ucPending' = ucPending + 1
          /\ ucOverlapped' = (ucOverlapped \/ ucPending > 0)
          /\ UNCHANGED ucDone
  /\ UNCHANGED <<ucIsMonitoring, ucInterval, ucInflight, ucStored, mrVars>>
  /\ UNCHANGED <<liveTimers, nextTimer, tickCount, pmVars>>
  /\ UNCHANGED nonMonVars

\* StartPerformanceMonitoringUseCase.execute after its await, lines 35-59
UcExecuteResume(collected) ==
  /\ ucPending > 0
  /\ ucPending' = ucPending - 1
  /\ IF collected
     THEN /\ SetInterval(ucInterval')
          /\ ucIsMonitoring' = TRUE
          /\ ucStored' = ucStored + 1
          /\ CollectAndStoreMetrics
          /\ ucDone' = [op |-> "execute", success |-> TRUE, error |-> "none"]
     ELSE /\ ucDone' = [op |-> "execute", success |-> FALSE,
                        error |-> "collection failed"]
          /\ UNCHANGED <<ucIsMonitoring, ucInterval, ucStored, liveTimers, nextTimer,
                         mrVars>>
  /\ UNCHANGED <<ucInflight, ucOverlapped, monCallCount, monCalled, tickCount, pmVars>>
  /\ UNCHANGED nonMonVars

\* StartPerformanceMonitoringUseCase.stop, lines 62-68
UcStop ==
  /\ MonCall("stop")
  /\ IF ucInterval # NoTimer
     THEN /\ liveTimers' = liveTimers \ {ucInterval}
          /\ ucInterval' = NoTimer
     ELSE UNCHANGED <<liveTimers, ucInterval>>
  /\ ucIsMonitoring' = FALSE
  /\ ucDone' = [op |-> "stop", success |-> TRUE, error |-> "none"]
  /\ UNCHANGED <<ucPending, ucInflight, ucStored, ucOverlapped, mrVars>>
  /\ UNCHANGED <<nextTimer, tickCount, pmVars>>
  /\ UNCHANGED nonMonVars

----------------------------------------------------------------------------
(* The database adapters: MSSQLAdapter, MySQLAdapter, PostgreSQLAdapter *)

NoPool == 0
NoType == "none"
NoResult == [success |-> FALSE, error |-> "", rowsAffected |-> 0]
NoAdapterCall ==
  [call |-> 0, op |-> "none", status |-> "none", value |-> FALSE, result |-> NoResult,
   contacted |-> FALSE, connected |-> FALSE, pool |-> NoPool]

AdapterInit ==
  /\ adType = NoType
  /\ adPool = NoPool
  /\ adConnected = FALSE
  /\ adOpen = {}
  /\ adNextPool = 0
  /\ adCalls = {}
  /\ adCallCount = 0
  /\ adDone = NoAdapterCall
  /\ adOverlapped = FALSE

\* `new MSSQLAdapter(...)`, `new MySQLAdapter(...)`, `new PostgreSQLAdapter(...)`:
\* pool / connection null, connected false
NewAdapter(type) ==
  /\ adType = NoType
  /\ adType' = type
  /\ UNCHANGED <<adPool, adConnected, adOpen, adNextPool, adCalls, adCallCount, adDone,
                 adOverlapped>>
  /\ UNCHANGED nonAdapterVars

\* a call on the adapter begins
AdapterEnter ==
  /\ adType # NoType
  /\ adCallCount < MaxAdapterCalls
  /\ adCallCount' = adCallCount + 1

\* the call suspends at an await, holding the driver object it works on
AdapterAwaits(op, pool) ==
  /\ adCalls' = adCalls \cup
       {[call |-> adCallCount + 1, op |-> op, pool |-> pool, connected |-> adConnected]}
  /\ UNCHANGED adDone

\* the outcome a call hands to its caller: status "returned" or "raised";
\* contacted: the call reached the driver; connected, pool: isConnected() and
\* the driver object held when the call was made
AdapterCompleted(call, op, status, value, result, contacted, connected, pool) ==
  adDone' = [call |-> call, op |-> op, status |-> status, value |-> value,
             result |-> result, contacted |-> contacted, connected |-> connected,
             pool |-> pool]

\* the catch block of connect: the pool / connection field it leaves. MSSQLAdapter
\* has assigned this.pool before awaiting pool.connect() (mssql.adapter.ts lines
\* 47-48) and the catch block (lines 50-55) does not reset it
ConnectFailed(type, pool) == pool

\* connect() up to its first await. MSSQLAdapter (mssql.adapter.ts lines 26-48)
\* constructs the pool, assigns it and awaits pool.connect(); MySQLAdapter
\* (part_007 lines 46-60) awaits mysql.createConnection; PostgreSQLAdapter
\* (connection.ts lines 477-499) constructs the pool and has no await at all.
\* constructed: the driver's constructor returns rather than throws
AdapterConnectCall(constructed) ==
  /\ AdapterEnter
  /\ CASE adType = "mysql" ->
            /\ AdapterAwaits("connect", NoPool)
            /\ UNCHANGED <<adPool, adConnected, adOpen, adNextPool>>
       [] adType = "mssql" /\ constructed ->
            /\ adNextPool' = adNextPool + 1
            /\ adPool' = adNextPool + 1
            /\ AdapterAwaits("connect", adNextPool + 1)
            /\ UNCHANGED <<adConnected, adOpen>>
       [] adType = "postgresql" /\ constructed ->
            /\ adNextPool' = adNextPool + 1
            /\ adPool' = adNextPool + 1
            /\ adOpen' = adOpen \cup {adNextPool + 1}
            /\ adConnected' = TRUE
            /\ AdapterCompleted(adCallCount + 1, "connect", "returned", TRUE, NoResult,
                                FALSE, adConnected, adPool)
            /\ UNCHANGED adCalls
       [] OTHER ->
            /\ adConnected' = FALSE
            /\ AdapterCompleted(adCallCount + 1, "connect", "raised", FALSE, NoResult,
                                FALSE, adConnected, adPool)
            /\ UNCHANGED <<adPool, adOpen, adNextPool, adCalls>>
  /\ UNCHANGED <<adType, adOverlapped>>
  /\ UNCHANGED nonAdapterVars

\* connect() after its await: mssql.adapter.ts lines 48-55, part_007 lines 60-67
AdapterConnectResume(c, driverOk) ==
  /\ c \in adCalls /\ c.op = "connect"
  /\ adCalls' = adCalls \ {c}
  /\ IF driverOk
     THEN /\ adConnected' = TRUE
          /\ IF adType = "mysql"
             THEN /\ adNextPool' = adNextPool + 1
                  /\ adPool' = adNextPool + 1
                  /\ adOpen' = adOpen \cup {adNextPool + 1}
             ELSE /\ adOpen' = adOpen \cup {c.pool}
                  /\ UNCHANGED <<adPool, adNextPool>>
          /\ AdapterCompleted(c.call, "connect", "returned", TRUE, NoResult, TRUE,
                              c.connected, c.pool)
     ELSE /\ adConnected' = FALSE
          /\ adPool' = ConnectFailed(adType, adPool)
          /\ AdapterCompleted(c.call, "connect", "raised", FALSE, NoResult, TRUE,
                              c.connected, c.pool)
          /\ UNCHANGED <<adOpen, adNextPool>>
  /\ UNCHANGED <<adType, adCallCount, adOverlapped>>
  /\ UNCHANGED nonAdapterVars

\* disconnect() up to its await: mssql.adapter.ts lines 60-66, part_007 lines
\* 73-79, connection.ts lines 504-510
AdapterDisconnectCall ==
  /\ AdapterEnter
  /\ IF adPool # NoPool
     THEN /\ AdapterAwaits("disconnect", adPool)
          /\ UNCHANGED adConnected
     ELSE /\ adConnected' = FALSE
          /\ AdapterCompleted(adCallCount + 1, "disconnect", "returned", TRUE, NoResult,
                              FALSE, adConnected, adPool)
          /\ UNCHANGED adCalls
  /\ UNCHANGED <<adType, adPool, adOpen, adNextPool, adOverlapped>>
  /\ UNCHANGED nonAdapterVars

\* disconnect() after its await: the field is set to null and connected to false,
\* or the failure of close() / end() is raised
AdapterDisconnectResume(c, driverOk) ==
  /\ c \in adCalls /\ c.op = "disconnect"
  /\ adCalls' = adCalls \ {c}
  /\ IF driverOk
     THEN /\ adOpen' = adOpen \ {c.pool}
          /\ adPool' = NoPool
          /\ adConnected' = FALSE
          /\ AdapterCompleted(c.call, "disconnect", "returned", TRUE, NoResult, TRUE,
                              c.connected, c.pool)
     ELSE /\ AdapterCompleted(c.call, "disconnect", "raised", FALSE, NoResult, TRUE,
                              c.connected, c.pool)
          /\ UNCHANGED <<adOpen, adPool, adConnected>>
  /\ adOverlapped' = (adOverlapped \/ (driverOk /\ \E k \in adCalls : k.op = "connect"))
  /\ UNCHANGED <<adType, adNextPool, adCallCount>>
  /\ UNCHANGED nonAdapterVars

\* An executeQuery that lets the driver's failure escape to the caller
QueryFailed_Raises(error) == "raised"

\* the catch block of executeQuery: the driver's failure is returned as a
\* QueryResult (mssql.adapter.ts lines 117-126, part_007 lines 131-140,
\* connection.ts lines 546-555)
QueryFailed(error) == "returned"

\* executeQuery and testConnection up to the await of the driver:
\* mssql.adapter.ts lines 79-103 and 381-385, part_007 lines 90-103 and 334-338,
\* connection.ts lines 521-536 and 759-763
AdapterQueryCall(op) ==
  /\ AdapterEnter
  /\ IF adPool # NoPool
     THEN AdapterAwaits(op, adPool)
     ELSE /\ IF op = "executeQuery"
             THEN AdapterCompleted(adCallCount + 1, op, "raised", FALSE,
                                   [NoResult EXCEPT !.error = "Not connected to database."],
                                   FALSE, adConnected, adPool)
             ELSE AdapterCompleted(adCallCount + 1, op, "returned", FALSE, NoResult,
                                   FALSE, adConnected, adPool)
          /\ UNCHANGED adCalls
  /\ UNCHANGED <<adType, adPool, adConnected, adOpen, adNextPool, adOverlapped>>
  /\ UNCHANGED nonAdapterVars

\* executeQuery and testConnection after the await; driverOk: the driver answered
\* the query, which it does only on an open pool / connection; rows: the rows it
\* reports as affected
AdapterQueryResume(c, driverOk, rows) ==
  /\ c \in adCalls /\ c.op \in {"executeQuery", "testConnection"}
  /\ driverOk => c.pool \in adOpen
  /\ adCalls' = adCalls \ {c}
  /\ LET result == IF driverOk
                   THEN [success |-> TRUE, error |-> "", rowsAffected |-> rows]
                   ELSE [success |-> FALSE, error |-> "driver error", rowsAffected |-> 0]
     IN IF c.op = "executeQuery"
        THEN AdapterCompleted(c.call, c.op,
                              IF driverOk THEN "returned" ELSE QueryFailed(result.error),
                              driverOk, result, TRUE, c.connected, c.pool)
        ELSE AdapterCompleted(c.call, c.op, "returned", driverOk, result, TRUE,
                              c.connected, c.pool)
  /\ UNCHANGED <<adType, adPool, adConnected, adOpen, adNextPool, adCallCount,
                 adOverlapped>>
  /\ UNCHANGED nonAdapterVars

NextAdapter ==
  \/ \E type \in SupportedTypes : NewAdapter(type)
  \/ \E constructed \in BOOLEAN : AdapterConnectCall(constructed)
  \/ \E c \in adCalls, ok \in BOOLEAN : AdapterConnectResume(c, ok)
  \/ AdapterDisconnectCall
  \/ \E c \in adCalls, ok \in BOOLEAN : AdapterDisconnectResume(c, ok)
  \/ \E op \in {"executeQuery", "testConnection"} : AdapterQueryCall(op)
  \/ \E c \in adCalls, ok \in BOOLEAN, rows \in {0, 1} : AdapterQueryResume(c, ok, rows)

----------------------------------------------------------------------------
(* Adapter.getSchema: the table list and the per-table detail fetch *)

MaxSchemaCalls == 2
MaxTables == 3

\* the rows of INFORMATION_SCHEMA.TABLES, of which getTables lists a prefix
TableNames == <<"customers", "orders", "products", "users", "v_sales">>

\* the arrays of a TableInfo are modelled by what they hold for a table: nothing,
\* or the detail rows of that table
EmptyDetail == <<>>
DetailOf(name) == <<name>>

\* one element of the array getTables builds, mssql.adapter.ts lines 147-155:
\* the four arrays start empty
ListedTable(name) ==
  [name |-> name, columns |-> EmptyDetail, primaryKeys |-> EmptyDetail,
   foreignKeys |-> EmptyDetail, indexes |-> EmptyDetail]

\* getTables: a rejected promise when executeQuery raised (no pool), the empty
\* list when the result has success false or no recordset, else one element
\* per row
GetTablesOutcomes ==
  {[threw |-> TRUE, names |-> <<>>]} \cup
  {[threw |-> FALSE, names |-> SubSeq(TableNames, 1, n)] : n \in 0..MaxTables}

NoSchema ==
  [call |-> 0, type |-> NoType, detailed |-> FALSE, status |-> "none",
   tables |-> <<>>, listed |-> <<>>, listThrew |-> FALSE, failed |-> {},
   attempted |-> {}]

GetSchemaInit ==
  /\ gsType = NoType
  /\ gsPc = "idle"
  /\ gsDetailed = FALSE
  /\ gsTables = <<>>
  /\ gsIndex = 0
  /\ gsListed = <<>>
  /\ gsFailed = {}
  /\ gsAttempted = {}
  /\ gsCount = 0
  /\ gsReturn = NoSchema

\* getSchema starts and reaches `await this.getTables()`
GetSchemaCall(type, includeDetailedInfo) ==
  /\ gsPc = "idle"
  /\ gsCount < MaxSchemaCalls
  /\ gsType' = type
  /\ gsDetailed' = includeDetailedInfo
  /\ gsPc' = "getTables"
  /\ gsCount' = gsCount + 1
  /\ gsTables' = <<>>
  /\ gsIndex' = 0
  /\ gsListed' = <<>>
  /\ gsFailed' = {}
  /\ gsAttempted' = {}
  /\ UNCHANGED gsReturn
  /\ UNCHANGED nonGetSchemaVars

\* the end of a getSchema call
GetSchemaCompletes(status, tables, listed, listThrew, failed, attempted) ==
  /\ gsReturn' = [call |-> gsCount, type |-> gsType, detailed |-> gsDetailed,
                  status |-> status, tables |-> tables, listed |-> listed,
                  listThrew |-> listThrew, failed |-> failed,
                  attempted |-> attempted]
  /\ gsType' = NoType
  /\ gsPc' = "idle"
  /\ gsDetailed' = FALSE
  /\ gsTables' = <<>>
  /\ gsIndex' = 0
  /\ gsListed' = <<>>
  /\ gsFailed' = {}
  /\ gsAttempted' = {}

\* what getSchema does when getTables rejected: the MSSQL adapter has an outer
\* catch that returns a schema without tables, the other two let it propagate
GetTablesThrew(type) == IF type = "mssql" THEN "returned" ELSE "raised"

\* `await this.getTables()` settles; with detail requested and a non-empty list
\* the loop starts and reaches `await this.getTableInfo(tables[0].name)`
GetTablesSettled(outcome) ==
  /\ gsPc = "getTables"
  /\ IF outcome.threw
       THEN GetSchemaCompletes(GetTablesThrew(gsType), <<>>, <<>>, TRUE, {}, {})
       ELSE LET tables == [i \in 1..Len(outcome.names) |-> ListedTable(outcome.names[i])]
            IN  IF gsDetailed /\ Len(tables) > 0
                  THEN /\ gsTables' = tables
                       /\ gsListed' = outcome.names
                       /\ gsIndex' = 1
                       /\ gsAttempted' = {1}
                       /\ gsPc' = "getTableInfo"
                       /\ UNCHANGED <<gsType, gsDetailed, gsFailed, gsReturn>>
                  ELSE GetSchemaCompletes("returned", tables, outcome.names, FALSE,
                                          {}, {})
  /\ UNCHANGED gsCount
  /\ UNCHANGED nonGetSchemaVars

\* getTableInfo(name) when its queries could not be run: the MSSQL adapter
\* catches inside getTableInfo and returns the basic info with empty arrays,
\* the other two reject
GetTableInfoFailed(type, name) ==
  IF type = "mssql"
    THEN [threw |-> FALSE, info |-> ListedTable(name)]
    ELSE [threw |-> TRUE, info |-> ListedTable(name)]

\* getTableInfo(name) when its queries ran
GetTableInfoOk(name) ==
  [threw |-> FALSE,
   info |-> [name |-> name, columns |-> DetailOf(name), primaryKeys |-> DetailOf(name),
             foreignKeys |-> DetailOf(name), indexes |-> DetailOf(name)]]

\* the body of the per-table try: the four arrays of tables[i] are assigned
\* from the fetched info; its catch assigns nothing
AssignDetail(tables, i, fetched) ==
  IF fetched.threw
    THEN tables
    ELSE [tables EXCEPT ![i] = [@ EXCEPT !.columns = fetched.info.columns,
                                         !.primaryKeys = fetched.info.primaryKeys,
                                         !.foreignKeys = fetched.info.foreignKeys,
                                         !.indexes = fetched.info.indexes]]

\* the position the loop goes to after the catch of the per-table try: the catch
\* rethrows nothing and does not break, so it is the increment of the for
AfterFailedTable_Aborts(i, n) == n + 1
AfterFailedTable(i, n) == i + 1

\* `await this.getTableInfo(tables[i].name)` settles; the loop goes on to the
\* next table, or getSchema returns the schema after the last one
GetTableInfoSettled(ok) ==
  /\ gsPc = "getTableInfo"
  /\ LET name == gsTables[gsIndex].name
         fetched == IF ok THEN GetTableInfoOk(name) ELSE GetTableInfoFailed(gsType, name)
         tables == AssignDetail(gsTables, gsIndex, fetched)
         failed == IF ok THEN gsFailed ELSE gsFailed \cup {gsIndex}
         next == IF fetched.threw THEN AfterFailedTable(gsIndex, Len(gsTables))
                                  ELSE gsIndex + 1
     IN  IF next <= Len(gsTables)
           THEN /\ gsTables' = tables
                /\ gsFailed' = failed
                /\ gsIndex' = next
                /\ gsAttempted' = gsAttempted \cup {next}
                /\ UNCHANGED <<gsType, gsPc, gsDetailed, gsListed, gsReturn>>
           ELSE GetSchemaCompletes("returned", tables, gsListed, FALSE, failed,
                                   gsAttempted)
  /\ UNCHANGED gsCount
  /\ UNCHANGED nonGetSchemaVars

NextGetSchema ==
  \/ \E type \in SupportedTypes, detailed \in BOOLEAN : GetSchemaCall(type, detailed)
  \/ \E outcome \in GetTablesOutcomes : GetTablesSettled(outcome)
  \/ \E ok \in BOOLEAN : GetTableInfoSettled(ok)

----------------------------------------------------------------------------
(* describe_table: SchemaHandler.handleDescribeTable and
   ToolHandlers.handleDescribeTable *)

MaxDescribeCalls == 2

StrOrders == <<"o", "r", "d", "e", "r", "s">>
\* the table names a request carries; the empty string is falsy
TableNameArguments == {StrUsers, StrOrders, <<>>}
DescribedTables == {StrUsers, StrOrders}
\* process.env.DB_DATABASE
DatabaseName == "WMS"

\* new Error(message): the name of a plain Error is "Error"; a template literal
\* is kept as its text and the table names put into it
JsError(text, values) == [name |-> "Error", text |-> text, values |-> values]
NoJsError == [name |-> "none", text |-> "", values |-> <<>>]

\* new SchemaValidationError(objectType, objectName, validationIssue), with the
\* default message
SchemaValidationError(objectType, objectName, validationIssue) ==
  [name |-> "SchemaValidationError",
   text |-> "Schema validation failed: ${validationIssue} for ${objectType} '${objectName}'",
   values |-> <<objectName>>]

\* what the adapter's getTableInfo gives for a name: its queries filter on the
\* name, so a name the database does not hold gives empty arrays, not an error
AdapterTableInfo(name, tables) ==
  [name |-> name, columns |-> IF name \in tables THEN <<name>> ELSE <<>>]

NoDescribe ==
  [call |-> 0, handler |-> "none", table |-> <<>>, missing |-> FALSE,
   status |-> "none", error |-> NoJsError, columns |-> <<>>]

DescribeInit ==
  /\ dbTables = {StrUsers}
  /\ repoSchemaCache = <<>>
  /\ dtHandler = "none"
  /\ dtPc = "idle"
  /\ dtTable = <<>>
  /\ dtMissing = FALSE
  /\ dtCount = 0
  /\ dtDone = NoDescribe

\* somebody creates or drops a table
CreateTable(name) ==
  /\ name \notin dbTables
  /\ dbTables' = dbTables \cup {name}
  /\ dtMissing' = (dtMissing /\ name # dtTable)
  /\ UNCHANGED <<repoSchemaCache, dtHandler, dtPc, dtTable, dtCount, dtDone>>
  /\ UNCHANGED cacheVars
  /\ UNCHANGED nonDescribeVars

DropTable(name) ==
  /\ name \in dbTables
  /\ dbTables' = dbTables \ {name}
  /\ UNCHANGED <<repoSchemaCache, dtHandler, dtPc, dtTable, dtMissing, dtCount, dtDone>>
  /\ UNCHANGED cacheVars
  /\ UNCHANGED nonDescribeVars

\* a handler call reaches an await
DescribeAwaits(handler, table, pc) ==
  /\ dtHandler' = handler
  /\ dtTable' = table
  /\ dtPc' = pc
  /\ UNCHANGED dtDone

\* a handler call ends: it returns the description or raises; missing: the
\* database answered the lookups of the call and held no such table at any of
\* its steps
DescribeCompletes(call, handler, table, missing, status, error, columns) ==
  /\ dtDone' = [call |-> call, handler |-> handler, table |-> table,
                missing |-> missing, status |-> status, error |-> error,
                columns |-> columns]
  /\ dtHandler' = "none"
  /\ dtTable' = <<>>
  /\ dtPc' = "idle"

\* SchemaHandler.handleDescribeTable up to `await this.getSchemaUseCase.execute`;
\* envSet: process.env.DB_DATABASE is set
SchemaHandlerDescribeCall(table_name, envSet) ==
  /\ dtPc = "idle"
  /\ dtCount < MaxDescribeCalls
  /\ dtCount' = dtCount + 1
  /\ IF table_name = <<>>
       THEN /\ DescribeCompletes(dtCount + 1, "SchemaHandler", table_name, FALSE,
                                  "raised", JsError("Table name is required", <<>>), <<>>)
            /\ dtMissing' = FALSE
       ELSE IF ~envSet
       THEN /\ DescribeCompletes(dtCount + 1, "SchemaHandler", table_name, FALSE,
                    "raised",
                    JsError("DB_DATABASE environment variable is required", <<>>), <<>>)
            /\ dtMissing' = FALSE
       ELSE /\ DescribeAwaits("SchemaHandler", table_name, "schema")
            /\ dtMissing' = (table_name \notin dbTables)
  /\ UNCHANGED <<dbTables, repoSchemaCache>>
  /\ UNCHANGED cacheVars
  /\ UNCHANGED nonDescribeVars

\* the use case settles: with refresh it runs SchemaRepositoryImpl.refreshSchema,
\* which lists the tables of the database and caches the schema, or rejects
\* when there is no connection or getTables rejected, in which case the use
\* case answers success false with the message. The per-table detail awaits of
\* refreshSchema change nothing the handler reads and are taken with the first.
SchemaHandlerSchemaFetched(refreshed) ==
  /\ dtPc = "schema"
  /\ IF refreshed
       THEN /\ repoSchemaCache' =
                 [k \in (DOMAIN repoSchemaCache) \cup {DatabaseName} |-> dbTables]
            /\ IF dtTable \in dbTables
                 THEN /\ DescribeAwaits(dtHandler, dtTable, "info")
                      /\ UNCHANGED dtMissing
                 ELSE /\ DescribeCompletes(dtCount, dtHandler, dtTable, dtMissing,
                            "raised",
                            JsError("Table '${table_name}' not found", <<dtTable>>), <<>>)
                      /\ dtMissing' = FALSE
       ELSE /\ DescribeCompletes(dtCount, dtHandler, dtTable, FALSE, "raised",
                  JsError("No active database connection.", <<>>),
                  <<>>)
            /\ dtMissing' = FALSE
            /\ UNCHANGED repoSchemaCache
  /\ UNCHANGED <<dbTables, dtCount>>
  /\ UNCHANGED cacheVars
  /\ UNCHANGED nonDescribeVars

\* `await this.schemaDomainService.getTableInfo(table_name)` settles:
\* SchemaRepositoryImpl.getTableInfo rethrows what the adapter raised
SchemaHandlerInfoFetched(adapterOk) ==
  /\ dtPc = "info"
  /\ IF adapterOk
       THEN DescribeCompletes(dtCount, dtHandler, dtTable, dtMissing, "returned",
                              NoJsError, AdapterTableInfo(dtTable, dbTables).columns)
       ELSE DescribeCompletes(dtCount, dtHandler, dtTable, FALSE, "raised",
                              JsError("Not connected to database.", <<>>), <<>>)
  /\ dtMissing' = FALSE
  /\ UNCHANGED <<dbTables, repoSchemaCache, dtCount>>
  /\ UNCHANGED cacheVars
  /\ UNCHANGED nonDescribeVars

\* ToolHandlers.handleDescribeTable up to the await inside
\* SchemaService.getTableInfo (part_003 lines 373-383): a valid cache entry is
\* returned at once; hasConnection: getCurrentConnection() returns
ToolsDescribeCall(table_name, hasConnection) ==
  /\ dtPc = "idle"
  /\ dtCount < MaxDescribeCalls
  /\ dtCount' = dtCount + 1
  /\ LET req == [op |-> "getTableInfo", tableName |-> table_name]
     IN  IF table_name = <<>>
           THEN /\ DescribeCompletes(dtCount + 1, "ToolHandlers", table_name, FALSE,
                      "raised", JsError("Table name was not provided.", <<>>), <<>>)
                /\ dtMissing' = FALSE
                /\ UNCHANGED schemaCache
           ELSE /\ schemaCache' = AfterIsCacheValid(schemaCache, CacheKey(req), cacheNow)
                /\ IF IsCacheValid(schemaCache, CacheKey(req), cacheNow)
                     THEN /\ DescribeCompletes(dtCount + 1, "ToolHandlers", table_name,
                                table_name \notin dbTables, "returned", NoJsError,
                                schemaCache[CacheKey(req)].data.columns)
                          /\ dtMissing' = FALSE
                     ELSE IF hasConnection
                     THEN /\ DescribeAwaits("ToolHandlers", table_name, "service")
                          /\ dtMissing' = (table_name \notin dbTables)
                     ELSE /\ DescribeCompletes(dtCount + 1, "ToolHandlers", table_name,
                                FALSE, "raised",
                                JsError("No active database connection.", <<>>), <<>>)
                          /\ dtMissing' = FALSE
  /\ UNCHANGED <<dbTables, repoSchemaCache>>
  /\ UNCHANGED <<cacheNow, backendVersion, cacheCalls, cacheCallCount, adapterFetches,
                 cacheLast>>
  /\ UNCHANGED nonDescribeVars

\* the await inside SchemaService.getTableInfo settles (part_003 lines 383-400):
\* the info is cached and described, or the adapter's error is rethrown
ToolsDescribeResume(adapterOk) ==
  /\ dtPc = "service"
  /\ LET req == [op |-> "getTableInfo", tableName |-> dtTable]
         tableInfo == AdapterTableInfo(dtTable, dbTables)
     IN  IF adapterOk
           THEN /\ schemaCache' = UpdateCache(schemaCache, CacheKey(req), tableInfo,
                                              cacheNow)
                /\ DescribeCompletes(dtCount, dtHandler, dtTable, dtMissing, "returned",
                                     NoJsError, tableInfo.columns)
           ELSE /\ UNCHANGED schemaCache
                /\ DescribeCompletes(dtCount, dtHandler, dtTable, FALSE, "raised",
                                     JsError("Not connected to database.", <<>>), <<>>)
  /\ dtMissing' = FALSE
  /\ UNCHANGED <<dbTables, repoSchemaCache, dtCount>>
  /\ UNCHANGED <<cacheNow, backendVersion, cacheCalls, cacheCallCount, adapterFetches,
                 cacheLast>>
  /\ UNCHANGED nonDescribeVars

NextDescribe ==
  \/ \E name \in DescribedTables : CreateTable(name)
  \/ \E name \in DescribedTables : DropTable(name)
  \/ \E name \in TableNameArguments, envSet \in BOOLEAN :
       SchemaHandlerDescribeCall(name, envSet)
  \/ \E refreshed \in BOOLEAN : SchemaHandlerSchemaFetched(refreshed)
  \/ \E ok \in BOOLEAN : SchemaHandlerInfoFetched(ok)
  \/ \E name \in TableNameArguments, hc \in BOOLEAN : ToolsDescribeCall(name, hc)
  \/ \E ok \in BOOLEAN : ToolsDescribeResume(ok)

----------------------------------------------------------------------------
(* The clear-caches handlers: ToolHandlers and PerformanceHandler *)

NoClear == [handler |-> "none", status |-> "none", call |-> 0]

ClearInit == clearDone = NoClear

\* ToolHandlers.handleClearCaches, tools.ts lines 621-643, once the services
\* exist (handleToolCall creates them before dispatching, so the guard of line
\* 622 does not fire): SchemaService.clearCache, QueryService.clearHistory and
\* PerformanceService.clearMetrics, which is PerformanceMonitor.clearMetrics
\* (part_005 lines 117-122), all synchronous
ToolsHandleClearCaches ==
  /\ clearDone.call < MaxClearCalls
  /\ schemaCache' = <<>>
  /\ queryHistory' = <<>>
  /\ pmMetrics' = <<>>
  /\ pmAlerts' = <<>>
  /\ clearDone' = [handler |-> "tools", status |-> "success",
                   call |-> clearDone.call + 1]
  /\ UNCHANGED <<connVars, alertVars, evalVars, statsVars, timerVars, ucVars, mrVars,
                 adapterVars, getSchemaVars, describeVars, eventVars, executorVars>>
  /\ UNCHANGED <<qOp, qQueries, qPhase, qInflight, qResults, qCaught, qAttempts, qSentTo,
                 qOutcomes, qReturn>>
  /\ UNCHANGED <<cacheNow, backendVersion, cacheCalls, cacheCallCount, adapterFetches,
                 cacheLast>>
  /\ UNCHANGED <<pmIsMonitoring, pmInterval, pmInflight, pmMaxMetricsHistory,
                 pmCollected, pmDone>>

\* PerformanceHandler.handleClearCaches, PerformanceHandler.ts lines 271-295: the
\* try block holds a comment and the return of the success text
PerformanceHandleClearCaches ==
  /\ clearDone.call < MaxClearCalls
  /\ clearDone' = [handler |-> "performance", status |-> "success",
                   call |-> clearDone.call + 1]
  /\ UNCHANGED <<connVars, queryVars, alertVars, evalVars, cacheVars, statsVars,
                 monVars, adapterVars, getSchemaVars, describeVars, eventVars, executorVars>>

\* the operations that fill the stores, and the two handlers
NextClear ==
  \/ \E req \in {StatsSchemaRequest, StatsTableRequest} : SchemaLookupCall(req, TRUE)
  \/ \E c \in cacheCalls : SchemaLookupResume(c, TRUE)
  \/ ExecuteQueryCall(AllStmts[1])
  \/ ExecuteQueryResume("ok")
  \/ StartMonitoring
  \/ IntervalElapses
  \/ \E c \in pmInflight, collected \in BOOLEAN : CollectAndCheckMetricsResume(c, collected)
  \/ \E kind \in CreatedAlertKinds : CreateAlert(kind[1], kind[2])
  \/ ToolsHandleClearCaches
  \/ PerformanceHandleClearCaches

NextMon ==
  \/ StartMonitoring
  \/ StopMonitoring
  \/ IntervalElapses
  \/ \E c \in pmInflight, collected \in BOOLEAN : CollectAndCheckMetricsResume(c, collected)
  \/ \E c \in ucInflight, collected \in BOOLEAN : UcTimerCallbackResume(c, collected)
  \/ UcExecuteCall
  \/ \E collected \in BOOLEAN : UcExecuteResume(collected)
  \/ UcStop

----------------------------------------------------------------------------
(* EventBus, one event type *)

EventHandlers == 1..MaxHandlers

\* what a handler function does when it is called: it returns, it throws, or it
\* calls subscribe or unsubscribe of the same event type on the bus and returns
HandlerBodies ==
  {[does |-> "return", handler |-> 0], [does |-> "throw", handler |-> 0]}
    \cup {[does |-> d, handler |-> h] : d \in {"subscribe", "unsubscribe"},
                                        h \in EventHandlers}

\* eventHandlers.includes(handler), line 35
Includes(array, handler) == \E i \in 1..Len(array) : array[i] = handler

\* eventHandlers.indexOf(handler), line 51, for a handler the array includes
IndexOf(array, handler) ==
  CHOOSE i \in 1..Len(array) :
    array[i] = handler /\ \A j \in 1..(i - 1) : array[j] # handler

\* subscribe, lines 29-38: the array of the event type after the call
AfterSubscribe(array, handler) ==
  IF Includes(array, handler) THEN array ELSE Append(array, handler)

\* unsubscribe, lines 45-60: the array after splice(index, 1); the empty array
\* stands for the deleted map key
AfterUnsubscribe(array, handler) ==
  IF Includes(array, handler)
  THEN SubSeq(array, 1, IndexOf(array, handler) - 1)
         \o SubSeq(array, IndexOf(array, handler) + 1, Len(array))
  ELSE array

EventBusInit ==
  /\ ebHandlers = <<>>
  /\ ebPublishing = FALSE
  /\ ebIndex = 0
  /\ ebAtStart = <<>>
  /\ ebInvoked = <<>>
  /\ ebErrors = 0
  /\ ebPublishCount = 0

\* subscribe(eventType, handler) called from outside a handler, lines 29-38
Subscribe(handler) ==
  /\ ~ebPublishing
  /\ ebHandlers' = AfterSubscribe(ebHandlers, handler)
  /\ UNCHANGED <<ebPublishing, ebIndex, ebAtStart, ebInvoked, ebErrors, ebPublishCount>>
  /\ UNCHANGED nonEventVars

\* unsubscribe(eventType, handler) called from outside a handler, lines 45-60
Unsubscribe(handler) ==
  /\ ~ebPublishing
  /\ ebHandlers' = AfterUnsubscribe(ebHandlers, handler)
  /\ UNCHANGED <<ebPublishing, ebIndex, ebAtStart, ebInvoked, ebErrors, ebPublishCount>>
  /\ UNCHANGED nonEventVars

\* publish(eventType, event) up to the first handler call, lines 67-73
Publish ==
  /\ ~ebPublishing
  /\ ebPublishCount < MaxPublishes
  /\ ebPublishCount' = ebPublishCount + 1
  /\ ebAtStart' = ebHandlers
  /\ ebInvoked' = <<>>
  /\ ebErrors' = 0
  /\ IF ebHandlers = <<>>
     THEN ebPublishing' = FALSE /\ ebIndex' = 0
     ELSE ebPublishing' = TRUE /\ ebIndex' = 1
  /\ UNCHANGED ebHandlers
  /\ UNCHANGED nonEventVars

\* one turn of the for...of loop, lines 73-79: the iterator reads the live array at
\* its index, the handler runs (body), a throw is caught and logged
HandlerInvoked(body) ==
  /\ ebPublishing
  /\ ebIndex <= Len(ebHandlers)
  /\ ebInvoked' = Append(ebInvoked, ebHandlers[ebIndex])
  /\ ebIndex' = ebIndex + 1
  /\ ebHandlers' =
       CASE body.does = "subscribe" -> AfterSubscribe(ebHandlers, body.handler)
         [] body.does = "unsubscribe" -> AfterUnsubscribe(ebHandlers, body.handler)
         [] OTHER -> ebHandlers
  /\ ebErrors' = IF body.does = "throw" THEN ebErrors + 1 ELSE ebErrors
  /\ UNCHANGED <<ebPublishing, ebAtStart, ebPublishCount>>
  /\ UNCHANGED nonEventVars

\* the iterator is past the end of the array: publish returns, line 80
PublishReturns ==
  /\ ebPublishing
  /\ ebIndex > Len(ebHandlers)
  /\ ebPublishing' = FALSE
  /\ UNCHANGED <<ebHandlers, ebIndex, ebAtStart, ebInvoked, ebErrors, ebPublishCount>>
  /\ UNCHANGED nonEventVars

NextEventBus ==
  \/ \E h \in EventHandlers : Subscribe(h)
  \/ \E h \in EventHandlers : Unsubscribe(h)
  \/ Publish
  \/ \E body \in HandlerBodies : HandlerInvoked(body)
  \/ PublishReturns

----------------------------------------------------------------------------
(* QueryExecutorImpl.executeInTransaction *)

ExecutorStatements == {"s1", "s2"}
NoExecutorError == "none"
BeginFailedError == "Failed to begin transaction"
CommitFailedError == "Failed to commit transaction"
RollbackFailedError == "Failed to rollback transaction"
\* new Error(result.error || 'Query execution in transaction failed'), line 116
StatementFailedError == "result.error"
\* the error connection.executeQuery(sql, options) raised, line 112
StatementThrownError == "thrown by executeQuery"
NoExecutorReturn == [status |-> "none", error |-> NoExecutorError]

ExecutorInit ==
  /\ exPc = "idle"
  /\ exSql = NoQuery
  /\ exSent = <<>>
  /\ exOutcomes = <<>>
  /\ exCaught = NoExecutorError
  /\ exReturn = NoExecutorReturn
  /\ exCount = 0

\* connection.executeQuery(statement, ...) is called and awaited
ExecutorSends(statement, pc) ==
  /\ exSent' = Append(exSent, statement)
  /\ exPc' = pc

\* the catch block of executeInTransaction up to the await inside
\* rollbackTransaction, lines 125-126 and 172-175
ExecutorCatch(error) ==
  /\ exCaught' = error
  /\ ExecutorSends(RollbackStmt, "rollbackCatch")
  /\ UNCHANGED exReturn

ExecutorEnds(status, error) ==
  /\ exPc' = "idle"
  /\ exReturn' = [status |-> status, error |-> error]
  /\ UNCHANGED <<exSent, exCaught>>

\* executeInTransaction up to the await inside beginTransaction, lines 107-109 and
\* 141-144; without a current connection getCurrentConnection() throws in
\* beginTransaction and again in the rollbackTransaction of the catch block
ExecutorExecuteInTransactionCall(sql, hasConnection) ==
  /\ exPc = "idle"
  /\ exCount < MaxExecutorCalls
  /\ exCount' = exCount + 1
  /\ exSql' = sql
  /\ exOutcomes' = <<>>
  /\ IF hasConnection
     THEN /\ exSent' = <<BeginStmt>>
          /\ exPc' = "begin"
          /\ exCaught' = NoExecutorError
          /\ exReturn' = NoExecutorReturn
     ELSE /\ exSent' = <<>>
          /\ exPc' = "idle"
          /\ exCaught' = BeginFailedError
          /\ exReturn' = [status |-> "raised", error |-> RollbackFailedError]
  /\ UNCHANGED nonExecutorVars

\* executeInTransaction after one of its awaits, lines 109-132; outcome is what
\* the awaited connection.executeQuery did
ExecutorExecuteInTransactionResume(outcome) ==
  /\ exPc # "idle"
  /\ exOutcomes' = Append(exOutcomes, outcome)
  /\ CASE exPc = "begin" ->
            IF outcome = "throw"
            THEN ExecutorCatch(BeginFailedError)
            ELSE ExecutorSends(exSql, "statement") /\ UNCHANGED <<exCaught, exReturn>>
       [] exPc = "statement" ->
            IF outcome = "throw" THEN ExecutorCatch(StatementThrownError)
            ELSE IF outcome = "fail"
            THEN ExecutorSends(RollbackStmt, "rollbackTry")
                 /\ UNCHANGED <<exCaught, exReturn>>
            ELSE ExecutorSends(CommitStmt, "commit") /\ UNCHANGED <<exCaught, exReturn>>
       [] exPc = "rollbackTry" ->
            IF outcome = "throw"
            THEN ExecutorCatch(RollbackFailedError)
            ELSE ExecutorCatch(StatementFailedError)
       [] exPc = "commit" ->
            IF outcome = "throw"
            THEN ExecutorCatch(CommitFailedError)
            ELSE ExecutorEnds("returned", NoExecutorError)
       [] exPc = "rollbackCatch" ->
            IF outcome = "throw"
            THEN ExecutorEnds("raised", RollbackFailedError)
            ELSE ExecutorEnds("raised", exCaught)
  /\ UNCHANGED <<exSql, exCount>>
  /\ UNCHANGED nonExecutorVars

NextExecutor ==
  \/ \E sql \in ExecutorStatements, hc \in BOOLEAN :
        ExecutorExecuteInTransactionCall(sql, hc)
  \/ \E o \in AdapterOutcomes : ExecutorExecuteInTransactionResume(o)

Init ==
  /\ ConnInit /\ QueryInit /\ AlertInit /\ EvalInit /\ CacheInit /\ StatsInit
  /\ MonInit /\ ClearInit /\ AdapterInit /\ GetSchemaInit
  /\ DescribeInit /\ EventBusInit /\ ExecutorInit

SpecStats == Init /\ [][NextStats]_vars

SpecClear == Init /\ [][NextClear]_vars

SpecAdapter == Init /\ [][NextAdapter]_vars

SpecGetSchema == Init /\ [][NextGetSchema]_vars

SpecTxn == Init /\ [][NextTxn]_vars

SpecSchemaSwitch == Init /\ [][NextSchemaSwitch]_vars

SpecEventBus == Init /\ [][NextEventBus]_vars

SpecExecutor == Init /\ [][NextExecutor]_vars

SpecDescribe == Init /\ [][NextDescribe]_vars

SpecEval == Init /\ [][NextEval]_vars

SpecMon == Init /\ [][NextMon]_vars

SpecCache == Init /\ [][NextCache]_vars

SpecAlert == Init /\ [][NextAlert]_vars

SpecQuery == Init /\ [][NextQuery]_vars

SpecConn == Init /\ [][NextConn]_vars

----------------------------------------------------------------------------
(* Claims about PerformanceAlert, checked under SpecAlert *)

AlertForwardMoves ==
  {<<"active", "acknowledged">>, <<"active", "resolved">>, <<"acknowledged", "resolved">>}

\* the step in which the suspended call c runs alert.acknowledge() / alert.resolve()
AlertMethodRuns(c, kind) ==
  /\ c \in alertCalls /\ c \notin alertCalls'
  /\ c.kind = kind /\ c.pc = "findById" /\ c.found

C4_StatusStep ==
  /\ \A id \in DOMAIN alertStore' \ DOMAIN alertStore :
        \E type \in AlertTypes, severity \in AlertSeverities :
          alertStore'[id] = NewAlert(type, severity, alertNow)
  /\ \A id \in DOMAIN alertStore :
        /\ id \in DOMAIN alertStore'
        /\ alertStore'[id].status # alertStore[id].status =>
             <<alertStore[id].status, alertStore'[id].status>> \in AlertForwardMoves
        /\ alertStore[id].status = "resolved" => alertStore'[id].status = "resolved"
  /\ \A c \in alertCalls :
        AlertMethodRuns(c, "resolve") =>
          /\ alertStore'[c.id].status = "resolved"
          /\ alertStore'[c.id].resolvedAt = alertNow
          /\ [c EXCEPT !.pc = "save"] \in alertCalls'
          /\ alertDone' = alertDone

\* C4: an alert is created active; every change of its status is one of
\* active -> acknowledged, active -> resolved, acknowledged -> resolved; resolve()
\* succeeds from active and from acknowledged (and from resolved) and sets the
\* resolved timestamp; a resolved alert stays resolved.
C4_StatusOnlyMovesForward == [][C4_StatusStep]_vars

\* C4 witness: an alert went active -> acknowledged -> resolved and a later
\* acknowledgeAlert on it was refused
C4_Witness ==
  \E id \in DOMAIN alertStore :
    /\ alertStore[id].status = "resolved"
    /\ alertStore[id].acknowledgedAt # NoTime
    /\ alertStore[id].resolvedAt > alertStore[id].acknowledgedAt
    /\ alertDone.kind = "acknowledge" /\ alertDone.id = id /\ alertDone.status = "error"

C5_AcknowledgeStep ==
  \A c \in alertCalls :
    AlertMethodRuns(c, "acknowledge") =>
      IF alertStore[c.id].status = "resolved"
      THEN /\ alertStore' = alertStore
           /\ alertDone'.kind = "acknowledge" /\ alertDone'.id = c.id
           /\ alertDone'.status = "error"
           /\ alertDone'.error = "Cannot acknowledge a resolved alert"
      ELSE /\ alertStore'[c.id] =
                [alertStore[c.id] EXCEPT !.status = "acknowledged",
                                         !.acknowledgedAt = alertNow]
           /\ \A id \in DOMAIN alertStore \ {c.id} : alertStore'[id] = alertStore[id]
           /\ alertDone' = alertDone

\* C5: acknowledge() on a resolved alert raises and leaves the status and both
\* timestamps as they were; on an active or acknowledged alert it sets the status
\* to acknowledged and the acknowledged timestamp to the current time.
C5_AcknowledgeRefusesResolved == [][C5_AcknowledgeStep]_vars

\* C5 witness: acknowledgeAlert was refused on an alert that had been resolved
\* without ever having been acknowledged
C5_Witness ==
  \E id \in DOMAIN alertStore :
    /\ alertDone.kind = "acknowledge" /\ alertDone.id = id /\ alertDone.status = "error"
    /\ alertDone.error = "Cannot acknowledge a resolved alert"
    /\ alertStore[id].status = "resolved" /\ alertStore[id].acknowledgedAt = NoTime
    /\ alertStore[id].resolvedAt > alertStore[id].createdAt

C13_EscalationStep ==
  alertEscalation' # alertEscalation =>
    /\ \A id \in DOMAIN alertStore :
         /\ id \in alertEscalation'.candidates <=>
              /\ alertStore[id].status = "active"
              /\ alertNow - alertStore[id].createdAt > alertEscalation'.thresholdMinutes
         /\ alertStore[id].status \in {"acknowledged", "resolved"} =>
              id \notin alertEscalation'.candidates
    /\ alertEscalation'.candidates \subseteq DOMAIN alertStore
    /\ UNCHANGED <<alertStore, alertNow, alertCalls, alertDone>>

\* C13: shouldEscalate(thresholdMinutes) is true exactly for an active alert
\* whose age is more than thresholdMinutes, so never for an acknowledged or
\* resolved alert whatever its age; evaluating it over the store
\* (findEscalationCandidates) changes no alert, adds none and completes no call.
C13_ShouldEscalateIsPassive == [][C13_EscalationStep]_vars

\* C13 witness: an alert acknowledged at its creation was evaluated later against
\* a threshold its age exceeds, and was not a candidate
C13_Witness ==
  /\ alertEscalation.call > 0
  /\ alertEscalation.thresholdMinutes = 0
  /\ alertEscalation.at > 0
  /\ alertEscalation.candidates = {}
  /\ 1 \in DOMAIN alertStore
  /\ alertStore[1].status = "acknowledged"
  /\ alertStore[1].createdAt = 0
  /\ alertStore[1].acknowledgedAt = 0

----------------------------------------------------------------------------
(* Claims about evaluateAndCreateAlerts, checked under SpecEval *)

\* the evaluations of the metric that are not healthy, in their order
UnhealthyEvaluations(metric) ==
  SelectSeq(<<1, 2, 3>>, LAMBDA e : HealthOf(metric, e) # "healthy")

\* the history is full and holds no alert older than one created now, so that
\* save() evicts the alert it was given
HistoryFullOfNewest ==
  /\ Len(alertsHistory) >= MaxAlertHistorySize
  /\ \A i \in 1..Len(alertsHistory) : alertStore[alertsHistory[i]].createdAt >= alertNow

C14_Returned ==
  (evalPc = 0 /\ evalCount > 0) =>
    LET unhealthy == UnhealthyEvaluations(evalMetric)
    IN /\ Len(evalAlerts) = Len(unhealthy)
       /\ \A k \in 1..Len(unhealthy) :
            /\ evalAlerts[k].alert.status = "active"
            /\ evalAlerts[k].alert.type = AlertTypeOf(unhealthy[k])
            /\ evalAlerts[k].alert.severity =
                 (IF HealthOf(evalMetric, unhealthy[k]) = "critical" THEN "critical"
                  ELSE "high")
       /\ \A k, l \in 1..Len(evalAlerts) : k # l => evalAlerts[k].id # evalAlerts[l].id

C14_Step ==
  /\ alertSeq' = alertSeq + 1 =>
       /\ Len(evalAlerts') = Len(evalAlerts) + 1 \/ Len(evalAlerts') = 1
       /\ LET new == evalAlerts'[Len(evalAlerts')]
          IN /\ new.id \notin DOMAIN alertStore
             /\ new.alert.createdAt = alertNow
             /\ ~HistoryFullOfNewest =>
                  /\ new.id \in DOMAIN alertStore'
                  /\ alertStore'[new.id] = new.alert
                  /\ alertStore'[new.id].status = "active"
  /\ alertSeq' = alertSeq => alertStore' = alertStore

\* C14: evaluateAndCreateAlerts creates one alert per evaluation (connection
\* pool, query performance, system) that is not healthy, in that order, and none
\* for a healthy one; each is created active, with severity critical for a
\* critical evaluation and high for a warning one, and is saved in the store (it
\* stays there unless the history is full of alerts no older than it).
C14_OneAlertPerUnhealthyEvaluation == [][C14_Step]_vars /\ []C14_Returned

\* C14 witness: a metric with a critical pool, healthy queries and a system
\* warning gave two stored alerts, critical and high
C14_Witness ==
  /\ evalPc = 0 /\ evalCount = 1
  /\ EvaluateConnectionPoolHealth(evalMetric) = "critical"
  /\ EvaluateQueryPerformance(evalMetric) = "healthy"
  /\ EvaluateSystemHealth(evalMetric) = "warning"
  /\ Len(evalAlerts) = 2
  /\ evalAlerts[1].alert.severity = "critical"
  /\ evalAlerts[2].alert.severity = "high"
  /\ DOMAIN alertStore = {evalAlerts[1].id, evalAlerts[2].id}
  /\ \A id \in DOMAIN alertStore : alertStore[id].status = "active"

----------------------------------------------------------------------------
(* Claims about SchemaService, checked under SpecCache *)

\* a step in which getSchema, getTables or getTableInfo is called
SchemaLookupIsCalled == cacheCallCount' = cacheCallCount + 1

\* the key holds an entry stored more than the TTL ago
StoredLongerAgoThanTtl(key) ==
  /\ key \in DOMAIN schemaCache
  /\ cacheNow - schemaCache[key].timestamp > CacheExpiration

C6_LookupStep ==
  /\ SchemaLookupIsCalled =>
       LET key == CacheKey(cacheLast'.req)
       IN /\ cacheLast'.outcome = "hit" =>
               /\ key \in DOMAIN schemaCache
               /\ cacheLast'.data = schemaCache[key].data
               /\ cacheNow - schemaCache[key].timestamp <= CacheExpiration
          /\ StoredLongerAgoThanTtl(key) =>
               /\ cacheLast'.outcome # "hit"
               /\ key \notin DOMAIN schemaCache'
               /\ cacheLast'.outcome = "miss" =>
                    /\ adapterFetches' = adapterFetches + 1
                    /\ \E c \in cacheCalls' \ cacheCalls : c.req = cacheLast'.req
               \* without a current connection the lookup raises
               /\ cacheLast'.outcome \in {"miss", "raised"}
  /\ \A c \in cacheCalls \ cacheCalls' :
       cacheLast'.outcome = "fetched" =>
         /\ cacheLast'.data = AdapterData(c.req, backendVersion)
         /\ schemaCache'[CacheKey(c.req)] =
              [data |-> AdapterData(c.req, backendVersion), timestamp |-> cacheNow]

\* C6: no lookup (getSchema, getTables, getTableInfo) is answered from a cache
\* entry stored more than the TTL ago: such a lookup deletes the entry and goes to
\* the current adapter (raising if there is no current connection), and when the
\* adapter answers, the fresh result is what is returned and stored, stamped with
\* the current time.
C6_ExpiredEntryIsRefetched ==
  [][C6_LookupStep]_vars /\ [](cacheLast.outcome = "hit" => cacheLast.age <= CacheExpiration)

\* C6 witness: an entry stored at time 0 was looked up after the TTL, when the
\* schema had changed, and the fresh data was fetched and stored
C6_Witness ==
  /\ cacheLast.outcome = "fetched"
  /\ cacheLast.data.version = 1
  /\ cacheNow > CacheExpiration
  /\ adapterFetches = 2
  /\ cacheCallCount = 2
  /\ DOMAIN schemaCache = {CacheKey(cacheLast.req)}
  /\ schemaCache[CacheKey(cacheLast.req)].timestamp = cacheNow

\* C17 as stated: an entry is served only while its age is below the TTL, so no
\* lookup is answered from an entry whose age equals the TTL.
C17_Original == cacheLast.outcome = "hit" => cacheLast.age < CacheExpiration

\* the entries of the cache that a step removes
RemovedKeys == (DOMAIN schemaCache) \ (DOMAIN schemaCache')

C17_Step ==
  /\ SchemaLookupIsCalled =>
       LET key == CacheKey(cacheLast'.req)
           stored == key \in DOMAIN schemaCache
       IN /\ cacheLast'.outcome = "hit" <=>
               (stored /\ cacheNow - schemaCache[key].timestamp <= CacheExpiration)
          /\ (stored /\ cacheNow - schemaCache[key].timestamp > CacheExpiration) =>
               /\ RemovedKeys = {key}
               /\ cacheLast'.outcome \in {"miss", "raised"}
               /\ cacheLast'.outcome = "miss" => adapterFetches' = adapterFetches + 1
               /\ cacheLast'.outcome = "raised" => adapterFetches' = adapterFetches
  /\ RemovedKeys # {} =>
       \/ schemaCache' = <<>>
       \/ /\ SchemaLookupIsCalled
          /\ RemovedKeys = {CacheKey(cacheLast'.req)}
          /\ StoredLongerAgoThanTtl(CacheKey(cacheLast'.req))
  \* time passing removes nothing
  /\ cacheNow' # cacheNow => schemaCache' = schemaCache

\* C17 (amended): a cache entry is valid exactly when now - storedAt <= ttl. A
\* lookup of an entry whose age is greater than the TTL is not served from it,
\* deletes it, and calls the adapter (or raises when there is no current
\* connection); entries leave the cache only in such a lookup or in clearCache,
\* never when time merely passes.
C17_ValidUpToTtlAndLazyEviction == [][C17_Step]_vars

\* C17 witness: a lookup was answered from an entry whose age is exactly the TTL
C17_Witness ==
  /\ cacheLast.outcome = "hit"
  /\ cacheLast.age = CacheExpiration
  /\ CacheKey(cacheLast.req) \in DOMAIN schemaCache

\* C18: a lookup is never answered from the cache with data stored for a
\* different request: what a cache hit returns was fetched for the same operation
\* with the same parameters (for getTables: the same pattern, or no pattern).
C18_HitReturnsDataOfSameRequest ==
  cacheLast.outcome = "hit" => cacheLast.data.of = cacheLast.req

----------------------------------------------------------------------------
(* Claims about getSchemaStatistics, checked under SpecStats *)

\* the last two getSchemaStatistics calls took the same path, both returned, and
\* the second was made less than the TTL after the first
TwoStatisticsCallsWithinTtl ==
  /\ statsPrev.status = "returned"
  /\ statsLast.status = "returned"
  /\ statsPrev.path = statsLast.path
  /\ statsLast.calledAt - statsPrev.calledAt < CacheExpiration

\* C16: of two consecutive get-schema-statistics calls made within the TTL
\* window, on the SchemaService path or on the SchemaRepositoryImpl path, the
\* second returns the statistics the first returned and calls the adapter not
\* once (no cache clear happens in these runs).
C16_StatisticsAreCached ==
  TwoStatisticsCallsWithinTtl =>
    /\ statsLast.stats = statsPrev.stats
    /\ statsLast.adapterCalls = 0

----------------------------------------------------------------------------
(* Claims about the database adapters, checked under SpecAdapter *)

\* a step in which an adapter call of the given kind hands its outcome over
AdapterCompletes(op, status) ==
  /\ adDone'.call # adDone.call
  /\ adDone'.op = op
  /\ adDone'.status = status

\* C23: a connect() that fails raises and leaves the adapter fully disconnected:
\* isConnected() is false and no pool or connection object is retained (so that
\* executeQuery raises `Not connected` and testConnection answers false without
\* reaching the driver), for each of the three adapters.
C23_FailedConnectLeavesNothing ==
  [][AdapterCompletes("connect", "raised") =>
       /\ ~adConnected'
       /\ adPool' = NoPool]_vars

C24_ExecuteQueryStep ==
  (AdapterCompletes("executeQuery", "returned") \/ AdapterCompletes("executeQuery", "raised")) =>
    \* a call that reached the driver returns, whatever the driver did
    /\ adDone'.contacted =>
         /\ adDone'.status = "returned"
         /\ adDone'.result.success = adDone'.value
         /\ ~adDone'.value =>
              /\ adDone'.result.error # ""
              /\ adDone'.result.rowsAffected = 0
    \* a call made on a connected adapter does not raise
    /\ (adDone'.connected /\ ~adOverlapped) => adDone'.status = "returned"
    \* only a call made without a pool / connection raises
    /\ adDone'.status = "raised" =>
         /\ adDone'.pool = NoPool
         /\ ~adOverlapped => ~adDone'.connected
         /\ ~adDone'.contacted
         /\ adDone'.result.error = "Not connected to database."

\* C24: executeQuery on a connected adapter does not raise when the driver fails:
\* it returns a QueryResult with success=false, the error text and rowsAffected
\* 0; it raises only when the adapter is not connected, that is, holds no pool or
\* connection, which is when isConnected() is false unless a disconnect()
\* completed while a connect() of the same adapter was awaiting.
C24_DriverFailureIsReturned == [][C24_ExecuteQueryStep]_vars

\* C24 witness: the driver failed a query on a connected adapter and executeQuery
\* returned the failure
C24_Witness ==
  /\ adDone.op = "executeQuery" /\ adDone.status = "returned"
  /\ adDone.connected /\ adDone.contacted
  /\ adDone.pool \in adOpen
  /\ adDone.result = [success |-> FALSE, error |-> "driver error", rowsAffected |-> 0]

----------------------------------------------------------------------------
(* Claims about the clear-caches handlers, checked under SpecClear *)

\* a step in which a clear-caches handler reports success
ClearCachesReportsSuccess ==
  /\ clearDone'.call = clearDone.call + 1
  /\ clearDone'.status = "success"

\* C19: when a clear-caches handler reports success, the stores behind it are
\* empty: for ToolHandlers.handleClearCaches the schema cache, the query history
\* and the PerformanceMonitor's metrics and alerts; for the server's
\* PerformanceHandler.handleClearCaches the alerts of the alert repository.
C19_ClearStep ==
  ClearCachesReportsSuccess =>
    /\ clearDone'.handler = "tools" =>
         /\ schemaCache' = <<>>
         /\ queryHistory' = <<>>
         /\ pmMetrics' = <<>>
         /\ pmAlerts' = <<>>
    /\ clearDone'.handler = "performance" =>
         /\ DOMAIN alertStore' = {}
         /\ alertsHistory' = <<>>

C19_ClearCachesEmptiesEverything == [][C19_ClearStep]_vars

\* the part of C19 about ToolHandlers.handleClearCaches alone
C19_ToolsClearStep ==
  (ClearCachesReportsSuccess /\ clearDone'.handler = "tools") =>
    /\ schemaCache' = <<>>
    /\ queryHistory' = <<>>
    /\ pmMetrics' = <<>>
    /\ pmAlerts' = <<>>

C19_ToolsHandlerEmptiesItsStores == [][C19_ToolsClearStep]_vars

----------------------------------------------------------------------------
(* Claims about the monitoring timers, checked under SpecMon *)

\* the timers of the use case that are live
UcTimers == liveTimers \ {pmInterval}
\* the timers of PerformanceMonitor that are live
PmTimers == liveTimers \cap {pmInterval}

MonCallIsMade(method) == monCallCount' = monCallCount + 1 /\ monCalled' = method

C7_Step ==
  /\ (MonCallIsMade("startMonitoring") /\ pmIsMonitoring) =>
       /\ liveTimers' = liveTimers
       /\ pmDone'.status = "warned"
       /\ UNCHANGED <<pmIsMonitoring, pmInterval, pmMetrics>>
  /\ (MonCallIsMade("stopMonitoring") /\ ~pmIsMonitoring) =>
       /\ liveTimers' = liveTimers
       /\ pmDone'.status = "warned"
       /\ UNCHANGED <<pmIsMonitoring, pmInterval, pmMetrics>>
  /\ (MonCallIsMade("execute") /\ ucIsMonitoring) =>
       /\ liveTimers' = liveTimers
       /\ ucDone' = [op |-> "execute", success |-> FALSE,
                     error |-> "Monitoring already active"]
       /\ UNCHANGED <<ucIsMonitoring, ucInterval, ucPending, ucStored>>
  /\ (MonCallIsMade("stop") /\ ~ucIsMonitoring) =>
       /\ liveTimers' = liveTimers
       /\ ucDone'.success
       /\ UNCHANGED <<ucIsMonitoring, ucInterval, ucPending, ucStored>>
  /\ tickCount' = tickCount + 1 =>
       /\ Cardinality(pmInflight' \ pmInflight) = (IF pmIsMonitoring THEN 1 ELSE 0)
       /\ ~ucOverlapped =>
            Cardinality(ucInflight' \ ucInflight) = (IF ucIsMonitoring THEN 1 ELSE 0)

C7_AtMostOneTimer ==
  /\ Cardinality(PmTimers) <= 1
  /\ ~ucOverlapped => Cardinality(UcTimers) <= 1

\* C7: PerformanceMonitor.startMonitoring while running, and execute() of the
\* use case while running, create no timer, change nothing and report a soft
\* failure; stopping either while it is not running changes nothing. Each of the
\* two keeps at most one interval timer live, so each interval tick starts one
\* metric collection when it runs and none when it does not - for the use case,
\* as long as its execute() calls were made one after the other.
C7_StartTwiceCreatesNoSecondTimer == [][C7_Step]_vars /\ []C7_AtMostOneTimer

\* C7 witness: both were started a second time while running, each has one live
\* timer and the interval has elapsed
C7_Witness ==
  /\ pmDone = [op |-> "startMonitoring", status |-> "warned"]
  /\ ucDone = [op |-> "execute", success |-> FALSE, error |-> "Monitoring already active"]
  /\ ~ucOverlapped
  /\ Cardinality(PmTimers) = 1
  /\ Cardinality(UcTimers) = 1
  /\ tickCount > 0

\* the last n elements of a sequence, all of them when it has fewer
LastN(seq, n) == SubSeq(seq, (IF Len(seq) > n THEN Len(seq) - n ELSE 0) + 1, Len(seq))

\* C15: whatever value maxMetricsHistory is configured to, the metric history
\* holds at most that many metrics, namely the most recently collected ones in
\* collection order, the oldest being evicted.
C15_HistoryIsCapped ==
  /\ Len(pmMetrics) <= pmMaxMetricsHistory
  /\ pmMetrics = LastN(pmCollected, pmMaxMetricsHistory)

----------------------------------------------------------------------------
(* Claims about QueryService, checked under SpecQuery *)

IsPrefix(s, t) == Len(s) <= Len(t) /\ SubSeq(t, 1, Len(s)) = s

\* the method that is running, or the one that completed last
LastOp == IF qOp # "idle" THEN qOp ELSE qReturn.op

\* In the running or last executeInTransaction, BEGIN did not raise, statements
\* 1..k-1 returned success=true and statement k returned success=false or raised
TxnFirstFailureAt(k) ==
  /\ LastOp = "txn"
  /\ k \in 1..Len(qQueries)
  /\ Len(qOutcomes) >= k + 1
  /\ qOutcomes[1] # "throw"
  /\ \A j \in 2..k : qOutcomes[j] = "ok"
  /\ qOutcomes[k + 1] # "ok"

\* C3: when statement k is the first to fail in executeInTransaction, what was
\* attempted is BEGIN, s1..sk in order, then ROLLBACK, and nothing else (no
\* statement after sk, no COMMIT), and the call ends by raising statement k's error.
C3_TransactionStopsAtFirstFailure ==
  \A k \in 1..MaxStmts :
    TxnFirstFailureAt(k) =>
      /\ qAttempts = <<BeginStmt>> \o SubSeq(qQueries, 1, k) \o <<RollbackStmt>>
      /\ qOp = "txn" => (qPhase = "rollback" /\ qInflight = RollbackStmt)
      /\ qOp = "idle" =>
           /\ qReturn.status = "raised"
           /\ qReturn.error.at = k + 1
           /\ qReturn.error = IF qOutcomes[k + 1] = "throw" THEN ThrownError(k + 1)
                               ELSE TransactionQueryFailed(k + 1)

\* C3 witness: executeInTransaction([s1, s2, s3]) has ended with s2 failed
C3_Witness ==
  /\ qOp = "idle" /\ qReturn.op = "txn" /\ qReturn.status = "raised"
  /\ qQueries = <<"s1", "s2", "s3">>
  /\ TxnFirstFailureAt(2)
  /\ qOutcomes[3] = "fail"
  /\ qAttempts = <<BeginStmt, "s1", "s2", RollbackStmt>>

\* the first attempt of the batch that raised, 0 if none did
FirstThrow ==
  IF \E i \in 1..Len(qOutcomes) : qOutcomes[i] = "throw"
  THEN CHOOSE i \in 1..Len(qOutcomes) :
         qOutcomes[i] = "throw" /\ \A j \in 1..(i - 1) : qOutcomes[j] # "throw"
  ELSE 0

\* C9 as stated: a completed executeBatch has attempted every statement once, in
\* order, whatever failed, and has returned one result per statement.
C9_Original ==
  (qOp = "idle" /\ qReturn.op = "batch") =>
    /\ qAttempts = qQueries
    /\ qReturn.status = "returned"
    /\ Len(qReturn.results) = Len(qQueries)

\* C9 amended: executeBatch attempts the statements one at a time in list order;
\* a success=false result of statement i is captured in result i and the later
\* statements are still attempted; if executeQuery raises for statement i the
\* batch stops there: statements i+1..n are not attempted, no result list is
\* returned and that error is raised to the caller.
C9_BatchContinuesAfterFailedResult ==
  LastOp = "batch" =>
    /\ IsPrefix(qAttempts, qQueries)
    /\ Len(qAttempts) = Len(qOutcomes) + (IF qInflight = NoQuery THEN 0 ELSE 1)
    /\ qOp = "batch" => qInflight # NoQuery /\ FirstThrow = 0
    /\ qOp = "idle" =>
         IF FirstThrow = 0
         THEN /\ qAttempts = qQueries
              /\ qReturn.status = "returned"
              /\ Len(qReturn.results) = Len(qQueries)
              /\ \A i \in 1..Len(qQueries) :
                    qReturn.results[i] = QueryResultOf(qOutcomes[i])
         ELSE /\ qAttempts = SubSeq(qQueries, 1, FirstThrow)
              /\ qReturn.status = "raised"
              /\ qReturn.error = ThrownError(FirstThrow)

\* C9 witness: a batch of three returned three results, the first a failure
C9_Witness ==
  /\ qOp = "idle" /\ qReturn.op = "batch" /\ qReturn.status = "returned"
  /\ Len(qQueries) = 3
  /\ qOutcomes = <<"fail", "ok", "ok">>
  /\ ~qReturn.results[1].success /\ qReturn.results[3].success

\* a step in which a call of this.executeQuery ends (returns or raises)
\* position of COMMIT among the attempts of the running or last transaction
CommitPositions == {i \in 1..Len(qAttempts) : qAttempts[i] = CommitStmt}

\* BEGIN, every statement and COMMIT have returned success=true
TxnAllSucceeded ==
  /\ LastOp = "txn"
  /\ Len(qOutcomes) = Len(qQueries) + 2
  /\ \A j \in 1..Len(qOutcomes) : qOutcomes[j] = "ok"

\* C11: in executeInTransaction COMMIT is attempted only as the attempt after
\* BEGIN and all statements in the given order, every statement having returned
\* success=true; and when BEGIN, the statements and COMMIT all succeed, the
\* attempts are exactly BEGIN, the statements in order, COMMIT (no ROLLBACK) and
\* the call returns one successful result per statement.
C11_CommitOnlyAfterAllSucceeded ==
  /\ LastOp = "txn" =>
       \A i \in CommitPositions :
         /\ i = Len(qQueries) + 2
         /\ SubSeq(qAttempts, 1, i) = <<BeginStmt>> \o qQueries \o <<CommitStmt>>
         /\ Len(qOutcomes) >= i - 1
         /\ \A j \in 2..(i - 1) : qOutcomes[j] = "ok"
  /\ TxnAllSucceeded =>
       /\ qAttempts = <<BeginStmt>> \o qQueries \o <<CommitStmt>>
       /\ qOp = "idle"
       /\ qReturn.status = "returned"
       /\ Len(qReturn.results) = Len(qQueries)
       /\ \A j \in 1..Len(qQueries) : qReturn.results[j].success

\* C11 witness: executeInTransaction([s1, s2, s3]) has committed and returned
C11_Witness ==
  /\ TxnAllSucceeded
  /\ qQueries = <<"s1", "s2", "s3">>
  /\ qAttempts = <<BeginStmt, "s1", "s2", "s3", CommitStmt>>
  /\ qReturn.status = "returned"
  /\ Len(qReturn.results) = 3

\* the last executeInTransaction ended after a ROLLBACK that failed
TxnRollbackFailed ==
  /\ qOp = "idle"
  /\ qReturn.op = "txn"
  /\ Len(qAttempts) >= 2
  /\ qAttempts[Len(qAttempts)] = RollbackStmt
  /\ Len(qOutcomes) = Len(qAttempts)
  /\ qOutcomes[Len(qOutcomes)] # "ok"

\* C12: when an attempt of executeInTransaction fails and the ROLLBACK that
\* follows fails too (it raises, or returns success=false), the call raises the
\* error of the attempt that failed first, not the rollback's.
C12_RollbackFailureDoesNotMask ==
  TxnRollbackFailed =>
    LET failed == Len(qAttempts) - 1
    IN /\ qReturn.status = "raised"
       /\ qReturn.error = IF qOutcomes[failed] = "throw" THEN ThrownError(failed)
                           ELSE TransactionQueryFailed(failed)
       /\ qReturn.error # ThrownError(Len(qAttempts))

\* C12 witness: s2 returned success=false and the ROLLBACK raised
C12_Witness ==
  /\ TxnRollbackFailed
  /\ qAttempts = <<BeginStmt, "s1", "s2", RollbackStmt>>
  /\ qOutcomes = <<"ok", "ok", "fail", "throw">>
  /\ qReturn.error = TransactionQueryFailed(3)

\* C20: the query history is bounded by a fixed maximum size: however many
\* statements executeQuery, executeBatch and executeInTransaction run, the
\* history never holds as many entries as the MaxHistory statements callers run
\* here, because entries beyond the maximum are dropped.
C20_HistoryIsBounded == Len(queryHistory) < MaxHistory

ExecuteQueryEnds == Len(qOutcomes') = Len(qOutcomes) + 1

C10_OneEntryPerCall ==
  /\ ExecuteQueryEnds =>
       /\ Len(queryHistory') = Len(queryHistory) + 1
       /\ SubSeq(queryHistory', 1, Len(queryHistory)) = queryHistory
       /\ queryHistory'[Len(queryHistory')].query = qInflight
       /\ qReturn'.op = "query" /\ qReturn'.status = "raised" =>
            /\ qReturn'.error = ThrownError(Len(qAttempts))
            /\ ~queryHistory'[Len(queryHistory')].success
  /\ ~ExecuteQueryEnds => (queryHistory' = queryHistory \/ queryHistory' = <<>>)

C10_MostRecentFirst ==
  /\ Len(GetQueryHistory(0)) = Len(queryHistory)
  /\ \A i \in 1..Len(queryHistory) :
        GetQueryHistory(0)[i] = queryHistory[Len(queryHistory) + 1 - i]
  /\ \A l \in 1..Len(queryHistory) :
        GetQueryHistory(l) = SubSeq(GetQueryHistory(0), 1, l)

\* C10: every executeQuery call that ends, by returning or by raising, appends
\* exactly one entry (its own) to the history and no other step adds one; a call
\* that raises has its entry in the history when the caller gets the error, which
\* is the error that was thrown; getQueryHistory lists the newest entry first.
C10_HistoryRecordsEveryCall ==
  [][C10_OneEntryPerCall]_vars /\ []C10_MostRecentFirst

\* C10 witness: an executeQuery raised after an earlier one had returned
C10_Witness ==
  /\ qOp = "idle" /\ qReturn.op = "query" /\ qReturn.status = "raised"
  /\ Len(queryHistory) = 2
  /\ queryHistory[1].success /\ ~queryHistory[2].success
  /\ GetQueryHistory(1) = <<queryHistory[2]>>

----------------------------------------------------------------------------
(* Claims about DatabaseConnectionManager, checked under SpecConn *)

\* A step in which a call of the given kind hands its outcome to the caller
ConnCompletes(kind, status) ==
  /\ connDone' # connDone
  /\ connDone'.kind = kind
  /\ connDone'.status = status

\* C1: in every state reachable by createConnection, switchConnection,
\* removeConnection, disconnectAll and autoReconnect calls interleaved at their
\* awaits, the current identifier is one value that is either unset or a key of
\* the registry (and the registry holds each key once).
C1_CurrentIsRegisteredOrUnset ==
  /\ currentConnection \in ConnectionIds \cup {NoConnection}
  /\ currentConnection # NoConnection => Has(connections, currentConnection)
  /\ Cardinality(KeySet(connections)) = Len(connections)

\* C1 witness: the current connection was removed while another call was still
\* suspended, and the current identifier moved to a remaining connection
C1_Witness ==
  /\ connDone.kind = "remove" /\ connDone.status = "ok" /\ connDone.wasCurrent
  /\ connCalls # {}
  /\ currentConnection # NoConnection

\* C2: a removeConnection(id) that succeeds while id is current leaves the current
\* identifier on a key still registered if a connection remains, unset if none
\* remains, and never on id.
C2_RemoveCurrentReassigns ==
  [][(ConnCompletes("remove", "ok") /\ currentConnection = connDone'.id) =>
       /\ currentConnection' # connDone'.id
       /\ ~Has(connections', connDone'.id)
       /\ IF Len(connections') > 0
          THEN Has(connections', currentConnection')
          ELSE currentConnection' = NoConnection]_vars

\* C2 witness: the current connection was removed and another one remained
C2_Witness ==
  /\ connDone.kind = "remove" /\ connDone.status = "ok" /\ connDone.wasCurrent
  /\ Len(connections) > 0
  /\ currentConnection = connections[1].id

\* C8: a createConnection that fails (unsupported type, or connect failed) raises
\* the error and writes nothing: neither the step up to the await nor the step
\* that raises changes the registry or the current identifier.
C8_FailedCreateRegistersNothing ==
  [][(\/ ConnCompletes("create", "error")
      \/ \E c \in connCalls' \ connCalls : c.kind = "create")
     => UNCHANGED <<connections, currentConnection>>]_vars

\* C8 witness: a connect failed while a connection was registered and current
C8_Witness ==
  /\ connDone.kind = "create" /\ connDone.status = "error"
  /\ connDone.error = "connection failed"
  /\ Len(connections) > 0
  /\ currentConnection # NoConnection

\* the registry entries other than id's, in order
OtherEntries(conns, id) == FilterOut(conns, id)

\* C21: a createConnection(id, config, type) that succeeds registers id with a
\* connected adapter (the other entries stay as they are) and makes id the
\* current connection exactly when no current connection exists as connect()
\* resolves; when one exists the current identifier is left unchanged.
C21_CreateSetsCurrentOnlyIfUnset ==
  [][ConnCompletes("create", "ok") =>
       LET id == connDone'.id
       IN /\ Has(connections', id)
          /\ adapterConnected'[Get(connections', id)]
          /\ Get(connections', id) \notin {connections[i].adapter : i \in 1..Len(connections)}
          /\ OtherEntries(connections', id) = OtherEntries(connections, id)
          /\ currentConnection = NoConnection => currentConnection' = id
          /\ currentConnection # NoConnection =>
               currentConnection' = currentConnection]_vars

\* C21 witness: a connection was created while another one was current, and the
\* current identifier stayed on the other one
C21_Witness ==
  /\ connDone.kind = "create" /\ connDone.status = "ok"
  /\ Has(connections, connDone.id)
  /\ adapterConnected[Get(connections, connDone.id)]
  /\ currentConnection \notin {NoConnection, connDone.id}

\* C22: switchConnection(id) raises and leaves the current identifier unchanged
\* when id is not in the registry; otherwise it returns with the current
\* identifier set to id, in the one step the call takes. Either way the registry
\* and the adapters are left as they were.
C22_SwitchChecksRegistry ==
  [][(ConnCompletes("switch", "ok") \/ ConnCompletes("switch", "error")) =>
       /\ connDone'.call = nextCall + 1
       /\ UNCHANGED <<connections, adapterConnected, connCalls>>
       /\ IF Has(connections, connDone'.id)
          THEN connDone'.status = "ok" /\ currentConnection' = connDone'.id
          ELSE /\ connDone'.status = "error"
               /\ connDone'.error = "Connection not found"
               /\ currentConnection' = currentConnection]_vars

\* C22 witness: a switch moved the current identifier from one registered
\* connection to the other
C22_Witness ==
  /\ connDone.kind = "switch" /\ connDone.status = "ok" /\ ~connDone.wasCurrent
  /\ currentConnection = connDone.id
  /\ Len(connections) = 2

\* the autoReconnect calls suspended at the given await
Reconnecting(calls, pc) == {c \in calls : c.kind = "reconnect" /\ c.pc = pc}

\* a step of an autoReconnect call: it is entered, goes on after an await, or ends
AutoReconnectSteps ==
  \/ connDone' # connDone /\ connDone'.kind = "reconnect"
  \/ Reconnecting(connCalls', "disconnect") # Reconnecting(connCalls, "disconnect")
  \/ Reconnecting(connCalls', "connect") # Reconnecting(connCalls, "connect")

C25_Step ==
  /\ AutoReconnectSteps => UNCHANGED <<connections, currentConnection>>
  /\ (connDone' # connDone /\ connDone'.kind = "reconnect") =>
       /\ connDone'.status \in {"true", "false"}
       \* true: the call passed its disconnect and its connect has now succeeded
       /\ connDone'.status = "true" <=>
            \E c \in Reconnecting(connCalls, "connect") \ connCalls' :
              c.call = connDone'.call /\ adapterConnected'[c.adapter]
       \* false: no target, target not registered, or disconnect / connect failed
       /\ connDone'.status = "false" =>
            \/ /\ connDone'.call = nextCall + 1
               /\ \/ connDone'.id = NoConnection
                  \/ ~Has(connections, connDone'.id)
            \/ \E c \in Reconnecting(connCalls, "disconnect") \ connCalls' :
                 c.call = connDone'.call /\ UNCHANGED adapterConnected
            \/ \E c \in Reconnecting(connCalls, "connect") \ connCalls' :
                 c.call = connDone'.call /\ ~adapterConnected'[c.adapter]
  \* the connect is awaited only after the disconnect succeeded
  /\ \A c \in Reconnecting(connCalls', "connect") \ connCalls :
       /\ [c EXCEPT !.pc = "disconnect"] \in connCalls
       /\ ~adapterConnected'[c.adapter]

\* C25: autoReconnect(id?) never raises: it returns true when the target (id, or
\* the current connection when id is omitted) was disconnected and then
\* connected again, in that order, and false when there is no target, the target
\* is not registered, or the disconnect or the connect fails; no step of it
\* changes the registry or the current identifier.
C25_AutoReconnectNeverRaises == [][C25_Step]_vars

\* C25 witness: the current connection was reconnected without the identifier
\* being given, and is connected and current as before
C25_Witness ==
  /\ connDone.kind = "reconnect" /\ connDone.status = "true"
  /\ connDone.id = currentConnection
  /\ Has(connections, connDone.id)
  /\ adapterConnected[Get(connections, connDone.id)]

\* the removeConnection calls a disconnectAll call has started
ChildrenOf(calls, parent) == {k \in calls : k.kind = "remove" /\ k.parent = parent}

C26_Step ==
  \* the call starts one removal for every connection registered at that time
  /\ \A c \in connCalls' \ connCalls :
       c.kind = "disconnectAll" =>
         /\ {k.id : k \in ChildrenOf(connCalls', c.call)} = KeySet(connections)
         /\ \A k \in ChildrenOf(connCalls', c.call) : k.adapter = Get(connections, k.id)
  \* a removal whose disconnect succeeded takes its connection off the registry; a
  \* removal whose disconnect failed ends too, and leaves the other removals
  \* and the disconnectAll call waiting for them in place
  /\ \A k \in connCalls \ connCalls' :
       (k.kind = "remove" /\ k.parent # 0) =>
         /\ connDone'.status = "ok" => ~Has(connections', k.id)
         /\ connDone'.status = "error" => UNCHANGED <<connections, currentConnection>>
         /\ connCalls' = connCalls \ {k}
  \* the call ends when every removal has ended, never by raising, and leaves the
  \* current identifier unset
  /\ (connDone' # connDone /\ connDone'.kind = "disconnectAll") =>
       /\ connDone'.status = "ok"
       /\ ChildrenOf(connCalls, connDone'.call) = {}
       /\ currentConnection' = NoConnection
       /\ UNCHANGED connections

\* C26: disconnectAll() starts the disconnect of every connection registered when
\* it is called and waits for all of them even if some fail, never raises,
\* removes from the registry every connection whose disconnect succeeded, and
\* leaves the current identifier unset.
C26_DisconnectAllSurvivesFailures == [][C26_Step]_vars

\* C26 witness: of two connections registered when disconnectAll was called, the
\* disconnect of one has failed and the other has then been removed, with the
\* disconnectAll call still waiting to end
C26_Witness ==
  /\ connDone.kind = "remove" /\ connDone.status = "ok" /\ connDone.call > MaxConnCalls
  /\ nextCall = 3
  /\ Len(connections) = 1
  /\ \E p \in connCalls : p.kind = "disconnectAll" /\ connCalls = {p}

----------------------------------------------------------------------------
(* Claims about Adapter.getSchema, checked under SpecGetSchema *)

\* C27. A getSchema call with detail requested whose getTables gave a list
\* returns, with one table per listed name in the listed order; getTableInfo
\* was called for every position of the list, whether or not an earlier one
\* failed; a table whose detail fetch failed has empty columns, primaryKeys,
\* foreignKeys and indexes, and every other table carries its own detail.
C27_FailedTableDoesNotAbortSchema ==
  (gsReturn.call > 0 /\ gsReturn.detailed /\ ~gsReturn.listThrew) =>
    /\ gsReturn.status = "returned"
    /\ Len(gsReturn.tables) = Len(gsReturn.listed)
    /\ gsReturn.attempted = DOMAIN gsReturn.listed
    /\ gsReturn.failed \subseteq gsReturn.attempted
    /\ \A i \in DOMAIN gsReturn.tables :
         /\ gsReturn.tables[i].name = gsReturn.listed[i]
         /\ gsReturn.tables[i] =
              IF i \in gsReturn.failed
                THEN ListedTable(gsReturn.listed[i])
                ELSE GetTableInfoOk(gsReturn.listed[i]).info

\* a schema was returned in which the first table's detail fetch failed on an
\* adapter whose getTableInfo rejects, and a later table carries its detail
C27_Witness ==
  /\ gsReturn.call > 0
  /\ gsReturn.detailed
  /\ gsReturn.type = "mysql"
  /\ gsReturn.status = "returned"
  /\ Len(gsReturn.tables) = MaxTables
  /\ 1 \in gsReturn.failed
  /\ 2 \notin gsReturn.failed
  /\ gsReturn.tables[1].columns = EmptyDetail
  /\ gsReturn.tables[2].columns = DetailOf(gsReturn.listed[2])

----------------------------------------------------------------------------
(* Claims about the describe_table handlers, checked under SpecDescribe *)

\* C28. A describe_table call for a table the database did not hold at any step
\* of the call, with the database answering its lookups, raises a
\* SchemaValidationError whose message carries the table name.
C28_MissingTableRaisesSchemaValidationError ==
  (dtDone.call > 0 /\ dtDone.missing) =>
    /\ dtDone.status = "raised"
    /\ dtDone.error.name = SchemaValidationError("table", dtDone.table, "not found").name
    /\ \E i \in DOMAIN dtDone.error.values : dtDone.error.values[i] = dtDone.table

----------------------------------------------------------------------------
(* Claims about the metric histories, checked under SpecMon *)

\* the number of places of a sequence that hold x
Occurrences(seq, x) == Cardinality({i \in DOMAIN seq : seq[i] = x})

\* s is what is left of t when some of its first elements are dropped
IsTail(s, t) == Len(s) <= Len(t) /\ s = SubSeq(t, Len(t) - Len(s) + 1, Len(t))

\* s without the places that hold x
RECURSIVE Without(_, _)
Without(s, x) ==
  IF s = <<>> THEN <<>>
  ELSE IF Head(s) = x THEN Without(Tail(s), x)
  ELSE <<Head(s)>> \o Without(Tail(s), x)

\* s is t with some of its last elements dropped
IsHead(s, t) == Len(s) <= Len(t) /\ s = SubSeq(t, 1, Len(s))

\* PerformanceMonitor: a step that collected the metric m puts it at the end of
\* the history, where it then occurs once; the metrics before it are those of
\* the old history in their order, less some of the oldest, and none is
\* dropped unless the history with m is longer than the configured maximum
MonitorAppendsOnce(m) ==
  LET before == SubSeq(pmMetrics', 1, Len(pmMetrics') - 1)
  IN /\ Len(pmMetrics') > 0
     /\ pmMetrics'[Len(pmMetrics')] = m
     /\ Occurrences(pmMetrics', m) = 1
     /\ IsTail(before, pmMetrics)
     /\ Len(before) < Len(pmMetrics) => Len(pmMetrics) + 1 > pmMaxMetricsHistory

\* the metric repository: a step that saved the metric m leaves a history in
\* which m occurs at most once and the other metrics are those of the old
\* history in their order; nothing is missing while the history with m is
\* within the maximum size, and otherwise exactly the excess is
RepositoryAppendsOnce(m) ==
  /\ Occurrences(mrHistory', m) <= 1
  /\ IF Len(mrHistory) + 1 <= MaxMetricHistorySize
       THEN /\ Occurrences(mrHistory', m) = 1
            /\ Without(mrHistory', m) = mrHistory
       ELSE /\ Len(mrHistory') = MaxMetricHistorySize
            /\ \/ Without(mrHistory', m) = mrHistory
               \/ /\ Occurrences(mrHistory', m) = 1
                  /\ IsHead(Without(mrHistory', m), mrHistory)
  /\ mrMetrics' = {mrHistory'[i].id : i \in DOMAIN mrHistory'}

C29_Step ==
  /\ IF pmCollected' # pmCollected
       THEN /\ \E c \in pmInflight : pmCollected' = Append(pmCollected, c.tick)
            /\ MonitorAppendsOnce(pmCollected'[Len(pmCollected')])
       ELSE pmMetrics' = pmMetrics
  /\ IF mrSaved' # mrSaved
       THEN /\ Len(mrSaved') = Len(mrSaved) + 1
            /\ SubSeq(mrSaved', 1, Len(mrSaved)) = mrSaved
            /\ Occurrences(mrSaved, mrSaved'[Len(mrSaved')]) = 0
            /\ RepositoryAppendsOnce(mrSaved'[Len(mrSaved')])
       ELSE mrHistory' = mrHistory /\ mrMetrics' = mrMetrics

\* C29. Every step of the monitoring components either collects one metric and
\* appends it to the history exactly once, losing earlier metrics only from
\* the old end and only beyond the cap, or leaves the history as it was; this
\* holds with collections of several ticks awaiting at once and resolving in
\* any order, and with start, stop and execute calls in between, for the
\* history of PerformanceMonitor and for that of the metric repository.
C29_HistoryAppendIsAtomic == [][C29_Step]_vars

\* two collections of the monitor awaited at once, the later tick's resolved
\* first, and both metrics are in the history; the repository holds two metrics
\* saved by overlapping timer callbacks
C29_Witness ==
  /\ pmCollected = <<2, 1>>
  /\ pmMetrics = <<2, 1>>
  /\ Len(mrSaved) >= 2
  /\ Len(mrHistory) = 2

----------------------------------------------------------------------------
(* Claims about the recorded outcome of a query, checked under SpecQuery *)

C30_Step ==
  (qOp = "query" /\ ExecuteQueryEnds /\ qReturn'.status = "returned") =>
    LET entry == queryHistory'[Len(queryHistory')]
        result == qReturn'.results[1]
    IN /\ entry.success = result.success
       /\ ~result.success =>
            /\ entry.error = result.error
            /\ GetQueryStats(queryHistory').failedQueries =
                 GetQueryStats(queryHistory).failedQueries + 1

\* C30. When executeQuery returns the adapter's QueryResult, the entry it
\* recorded has the success flag of that result; for a result with success
\* false the entry carries the result's error text and getQueryStats counts one
\* more failed query than before the call.
C30_EntryHasSuccessOfResult == [][C30_Step]_vars

----------------------------------------------------------------------------
(* Claims about the timers of the use case, checked under SpecMon *)

C31_StopStep ==
  (MonCallIsMade("stop") /\ ucPending = 0) => liveTimers' \ {pmInterval'} = {}

\* C31. The use case never has more than one live timer, whether or not
\* execute() calls overlap, and a stop() made while no execute() is awaiting
\* leaves no timer of the use case live.
C31_OneTimerAndStopClearsAll ==
  [](Cardinality(UcTimers) <= 1) /\ [][C31_StopStep]_vars

\* the adapters that the statements of the transaction in progress reached
TxnAdapters == {qSentTo[i] : i \in 1..Len(qSentTo)} \ {NoAdapter}

\* C32. All statements of one executeInTransaction call (BEGIN, each statement,
\* COMMIT or ROLLBACK) are sent to the same adapter, whatever switchConnection or
\* removeConnection calls run between two of them.
C32_TransactionOnOneAdapter ==
  (qReturn.op = "txn" \/ qOp = "txn") => Cardinality(TxnAdapters) <= 1
\* the executeInTransaction call in progress or just completed got success=false
\* from the adapter for BEGIN TRANSACTION
BeginFailed ==
  /\ qOp = "txn" \/ (qOp = "idle" /\ qReturn.op = "txn")
  /\ Len(qOutcomes) >= 1 /\ qOutcomes[1] = "fail"

\* C38. executeInTransaction executes none of the given statements unless BEGIN
\* TRANSACTION succeeded: when the adapter returns success=false for BEGIN, no
\* statement and no COMMIT is issued and the call fails.
C38_NothingRunsAfterFailedBegin ==
  BeginFailed =>
    /\ \A i \in 2..Len(qAttempts) : qAttempts[i] = RollbackStmt
    /\ qOp = "idle" => qReturn.status = "raised"
\* the adapters reachable through this.connections
RegisteredAdapters == {connections[i].adapter : i \in 1..Len(connections)}

\* C34. Every adapter that createConnection has connected is either present in the
\* registry or has been disconnected: no connected adapter is unreachable from the
\* registry, also when createConnection is given an identifier already registered.
C34_ConnectedAdaptersAreRegistered ==
  \A a \in Adapters : adapterConnected[a] => a \in RegisteredAdapters
\* C35. Whenever the current identifier is set and no manager call is in progress,
\* the adapter it names is connected (isConnected() is true), after any sequence of
\* createConnection, switchConnection, removeConnection, autoReconnect and
\* disconnectAll calls, also ones in which a connect or a disconnect fails.
C35_CurrentIsConnected ==
  (currentConnection # NoConnection /\ connCalls = {}) =>
    /\ Has(connections, currentConnection)
    /\ adapterConnected[Get(connections, currentConnection)]
\* a step taken while PerformanceMonitor is stopped: stopMonitoring has returned
\* and startMonitoring has not been called since
C36_StoppedStep ==
  (~pmIsMonitoring /\ ~pmIsMonitoring' /\ monCalled = "stopMonitoring") =>
    (pmMetrics' = pmMetrics /\ pmAlerts' = pmAlerts)

\* C36. After stopMonitoring() returns, no metric and no alert is added to the
\* history of PerformanceMonitor until monitoring is started again, also when the
\* metric collection of a tick was in flight at the time of the stop.
C36_NothingAddedAfterStop == [][C36_StoppedStep]_vars
\* the system figures of the evaluated metric that are over the warning threshold
SystemBreaches ==
  {k \in {"cpuUsage", "memoryUsage", "diskUsage"} : evalMetric.system[k] > 70}

\* C40. The type of the alert created for the system evaluation names the metric
\* that breached: high_memory_usage when only the memory threshold is breached,
\* high_disk_usage when only the disk threshold is, high_cpu_usage for a CPU breach.
C40_SystemAlertTypeNamesMetric ==
  (evalPc = 0 /\ evalCount > 0 /\ SystemBreaches # {}) =>
    LET type == evalAlerts[Len(evalAlerts)].alert.type
    IN /\ "cpuUsage" \in SystemBreaches => type = "high_cpu_usage"
       /\ SystemBreaches = {"memoryUsage"} => type = "high_memory_usage"
       /\ SystemBreaches = {"diskUsage"} => type = "high_disk_usage"
\* a lookup answered from the cache
C33_Step ==
  (cacheCallCount' = cacheCallCount + 1 /\ cacheLast'.outcome = "hit") =>
    cacheLast'.data.from = CurrentAdapter

\* C33. SchemaService returns data fetched from the connection that is current at
\* the time of the call: after switchConnection to another connection, getSchema,
\* getTables and getTableInfo do not return data cached from the connection that
\* was current before.
C33_DataIsFromCurrentConnection == [][C33_Step]_vars
\* C37. publish invokes exactly the handlers subscribed to the event type when
\* publish starts, each exactly once and in subscription order, also when a
\* handler throws or subscribes or unsubscribes handlers of that event type
\* during the delivery.
C37_PublishDeliversToSubscribersAtStart ==
  (~ebPublishing /\ ebPublishCount > 0) => ebInvoked = ebAtStart

\* the call sent its statement and the adapter returned a result for it
StatementReturned ==
  /\ Len(exOutcomes) >= 2
  /\ exSent[2] = exSql
  /\ exOutcomes[2] \in {"ok", "fail"}

\* C39. QueryExecutorImpl.executeInTransaction sends BEGIN, the statement, then
\* exactly one of COMMIT or ROLLBACK: when the statement returns success=false it
\* issues ROLLBACK once and raises the statement's error, when the statement
\* succeeds it issues COMMIT and no ROLLBACK.
C39_BeginStatementThenOneEnd ==
  (exPc = "idle" /\ StatementReturned) =>
    /\ Len(exSent) = 3
    /\ exSent[1] = BeginStmt
    /\ exSent[3] \in {CommitStmt, RollbackStmt}
    /\ exOutcomes[2] = "fail" =>
         /\ exSent[3] = RollbackStmt
         /\ exReturn = [status |-> "raised", error |-> StatementFailedError]
    /\ exOutcomes[2] = "ok" => exSent[3] = CommitStmt
====
